---- MODULE Spec2Model ----
(***************************************************************************)
(* Model of proto-trading-service: the session authentication gateway      *)
(* (internal/middleware/auth.go as routed by cmd/server/main.go) and the   *)
(* market-data store written by internal/services/market.go.               *)
(*                                                                         *)
(* Strings that the code inspects by prefix (header and cookie values) are *)
(* sequences of lexemes, so that HasPrefix / TrimPrefix are computed.      *)
(***************************************************************************)
EXTENDS Integers, Sequences, FiniteSets, TLC

\* ------------------------------------------------------------------ bounds
\* Latest instant of the request clock.
MaxNow == 2
\* Longest batch handed to an ingestion call.
MaxBatch == 2
\* Last value the id sequence of market_data may hand out.
MaxId == 4

VARIABLES
    authConfig,   \* package variable authConfig: "nil" or "set"
    kratos,       \* the identity provider's current reply for the tokens it knows
    now,          \* time.Now() as seen by the middleware
    chain,        \* handler chain of the matched route (gin's c.handlers)
    pc,           \* index in chain of the next handler to run; 0 = no request
    req,          \* the inbound request: route, cookie, headers
    ctx,          \* gin context keys set by the middleware
    resp,         \* response written so far
    aborted,      \* c.Abort() was called
    calls,        \* outbound calls to the provider made by this request
    sent,         \* credential attached to the outbound call (<<>> = none)
    ran,          \* business handler that ran for this request ("" = none)
    prev,         \* outcome of the previous request, kept for comparison
    prefs,        \* rows of table user_preferences
    store,        \* rows of table market_data
    nextId,       \* next value of the BIGSERIAL sequence market_data.id
    call,         \* last service call on the store: operation, batch, result
    txs           \* per connection: the transaction it has open on the store

vars == <<authConfig, kratos, now, chain, pc, req, ctx, resp, aborted, calls, sent, ran, prev, prefs, store, nextId, call, txs>>

\* ------------------------------------------------------------ string helpers
EmptyStr == <<>>

\* strings.HasPrefix
HasPrefix(s, p) == Len(s) >= Len(p) /\ SubSeq(s, 1, Len(p)) = p

\* strings.TrimPrefix
TrimPrefix(s, p) == IF HasPrefix(s, p) THEN SubSeq(s, Len(p) + 1, Len(s)) ELSE s

BearerPrefix == <<"Bearer", " ">>
SessionPrefix == <<"Session", " ">>

\* Opaque credentials.
T1 == <<"tok1">>
T2 == <<"tok2">>
T3 == <<"tok3">>

\* Credentials the provider has a session for; any other is answered 401.
KnownTokens == {T1, T2}

\* c.Cookie("ory_kratos_session"): present flag (err == nil) and value.
NoCookie == [present |-> FALSE, value |-> EmptyStr]
Cookie(v) == [present |-> TRUE, value |-> v]
CookieValues == {NoCookie, Cookie(EmptyStr), Cookie(T1), Cookie(T2)}

\* Values of the Authorization header as delivered by net/http (surrounding
\* blanks are trimmed by the header parser, so no value ends in a blank).
AuthHeaderValues ==
    { EmptyStr,
      BearerPrefix \o T2,
      SessionPrefix \o T2,
      <<"Basic", " ">> \o T2,
      <<"Bearer">>,
      <<"bearer", " ">> \o T2,
      BearerPrefix \o T1,
      T2 }

XTokenValues == {EmptyStr, T3, T1}

\* Header sets carried by the requests of the gateway specification: every
\* subset of the three credential sources, each source with its own token.
GatewayCredentials ==
    [cookie : {NoCookie, Cookie(T1)}, auth : {EmptyStr, BearerPrefix \o T2}, xtoken : {EmptyStr, T3}]

\* --------------------------------------------------------- token extraction
\* Header-first order of the superseded extractSessionToken.
extractSessionTokenHeaderFirst(r) ==
    IF r.auth # EmptyStr /\ HasPrefix(r.auth, BearerPrefix)
    THEN TrimPrefix(r.auth, BearerPrefix)
    ELSE IF r.xtoken # EmptyStr
    THEN r.xtoken
    ELSE IF r.cookie.present
    THEN r.cookie.value
    ELSE EmptyStr

\* extractSessionToken: cookie, then Authorization, then X-Session-Token.
extractSessionToken(r) ==
    IF r.cookie.present /\ r.cookie.value # EmptyStr
    THEN r.cookie.value
    ELSE IF r.auth # EmptyStr /\ HasPrefix(r.auth, BearerPrefix)
    THEN TrimPrefix(r.auth, BearerPrefix)
    ELSE IF r.auth # EmptyStr /\ HasPrefix(r.auth, SessionPrefix)
    THEN TrimPrefix(r.auth, SessionPrefix)
    ELSE IF r.xtoken # EmptyStr
    THEN r.xtoken
    ELSE EmptyStr

\* ------------------------------------------------------- identity provider
\* time.Time{} : the value of a time field the JSON body does not carry.
ZeroTime == 0
\* Marker of an expires_at field missing from the body.
AbsentField == -1

\* The "role" entry of identity.traits as JSON: absent, a non-string, a string.
AbsentTrait == [type |-> "absent", val |-> ""]
NumberTrait == [type |-> "number", val |-> "7"]
StringTrait(v) == [type |-> "string", val |-> v]
RoleTraits ==
    {AbsentTrait, NumberTrait} \cup {StringTrait(v) : v \in {"trader", "admin", "viewer", "superuser"}}

\* Bodies of /sessions/whoami replies.
GarbledBody == [decodable |-> FALSE, active |-> FALSE, expires_at |-> AbsentField, role |-> AbsentTrait]
SessionBodies ==
    [decodable : {TRUE}, active : BOOLEAN, expires_at : {AbsentField} \cup (1..MaxNow), role : RoleTraits]
\* A body that would pass every check if it were decoded.
LiveBody == [decodable |-> TRUE, active |-> TRUE, expires_at |-> MaxNow, role |-> StringTrait("admin")]

\* Outcomes of client.Do: a transport error or timeout, or a response.
Unreachable == [kind |-> "unreachable", code |-> 0, body |-> GarbledBody]
Response(c, b) == [kind |-> "response", code |-> c, body |-> b]
Replies ==
    {Unreachable}
    \cup {Response(c, b) : c \in {401, 403, 500}, b \in {GarbledBody, LiveBody}}
    \cup {Response(200, b) : b \in SessionBodies \cup {GarbledBody}}

\* The provider's reply to a call carrying credential tok.
KratosReply(tok) == IF tok \in KnownTokens THEN kratos ELSE Response(401, GarbledBody)

\* json.Decode into KratosSession.
NoSession == [id |-> "", active |-> FALSE, identity |-> "", role |-> AbsentTrait, expiresAt |-> ZeroTime]
Decode(b) ==
    [id |-> "s1", active |-> b.active, identity |-> "u1", role |-> b.role,
     expiresAt |-> IF b.expires_at = AbsentField THEN ZeroTime ELSE b.expires_at]

\* validateSession that decodes whatever body came back.
validateSessionAnyStatus(tok) ==
    LET a == KratosReply(tok) IN
    IF a.kind = "unreachable" THEN [err |-> TRUE, session |-> NoSession, calls |-> 1]
    ELSE IF a.body.decodable THEN [err |-> FALSE, session |-> Decode(a.body), calls |-> 1]
    ELSE [err |-> TRUE, session |-> NoSession, calls |-> 1]

\* validateSession that tries a second time after a failure.
validateSessionRetry(tok) ==
    LET a == KratosReply(tok) IN
    IF a.kind = "response" /\ a.code = 200 /\ a.body.decodable
    THEN [err |-> FALSE, session |-> Decode(a.body), calls |-> 1]
    ELSE [err |-> TRUE, session |-> NoSession, calls |-> 2]

\* validateSession: one GET /sessions/whoami; the body is decoded on 200 only.
validateSession(tok) ==
    LET a == KratosReply(tok) IN
    IF a.kind = "unreachable" THEN [err |-> TRUE, session |-> NoSession, calls |-> 1]
    ELSE IF a.code = 200
    THEN IF a.body.decodable
         THEN [err |-> FALSE, session |-> Decode(a.body), calls |-> 1]
         ELSE [err |-> TRUE, session |-> NoSession, calls |-> 1]
    ELSE [err |-> TRUE, session |-> NoSession, calls |-> 1]

\* ------------------------------------------------------------ gin context
EmptyCtx == [keys |-> {}, user_id |-> "", user_traits |-> AbsentTrait, session |-> NoSession, session_id |-> ""]

\* The four c.Set calls made for an admitted session.
UserContext(session) ==
    [keys |-> {"user_id", "user_traits", "session", "session_id"},
     user_id |-> session.identity, user_traits |-> session.role,
     session |-> session, session_id |-> session.id]

NoResp ==
    [status |-> 0, error |-> "", login_url |-> FALSE, required_role |-> "", user_role |-> "",
     authenticated |-> "", role |-> "", data |-> {}, count |-> AbsentField,
     rows_imported |-> AbsentField, rows_skipped |-> AbsentField, errors |-> <<>>]

\* c.JSON(401, {error, login_url, kratos_ui})
Unauthorized(msg) == [NoResp EXCEPT !.status = 401, !.error = msg, !.login_url = TRUE]

\* GetUserID
GetUserID(c) == IF "user_id" \in c.keys THEN c.user_id ELSE ""

\* GetSessionID
GetSessionID(c) == IF "session_id" \in c.keys THEN c.session_id ELSE ""

\* GetUserRole
GetUserRole(c) ==
    IF "user_traits" \in c.keys /\ c.user_traits.type = "string" THEN c.user_traits.val ELSE "trader"

\* --------------------------------------------------------------- middleware
\* time.Now().After(session.ExpiresAt) with the check left out.
ExpiredNever(session, t) == FALSE

\* time.Now().After(session.ExpiresAt)
Expired(session, t) == t > session.expiresAt

\* The two session checks made in the opposite order.
SessionFailureExpiryFirst(session, t) ==
    IF Expired(session, t) THEN "Session expired"
    ELSE IF ~session.active THEN "Session inactive"
    ELSE ""

\* The checks AuthRequired applies to a decoded session, in its order:
\* the error it answers with, or "" when the session passes.
SessionFailure(session, t) ==
    IF ~session.active THEN "Session inactive"
    ELSE IF Expired(session, t) THEN "Session expired"
    ELSE ""

\* Outcome of a middleware: response written (status 0 = none), abort flag,
\* context after it, calls made to the provider, credential sent.
Outcome(r, a, c, n, t) == [resp |-> r, abort |-> a, ctx |-> c, calls |-> n, sent |-> t]

\* AuthRequired that lets a request through when validation fails.
AuthRequiredLenient(r, t) ==
    IF authConfig = "nil"
    THEN Outcome([NoResp EXCEPT !.status = 500, !.error = "Authentication service not configured"],
                 TRUE, EmptyCtx, 0, EmptyStr)
    ELSE LET tok == extractSessionToken(r) IN
         IF tok = EmptyStr
         THEN Outcome(Unauthorized("Authentication required"), TRUE, EmptyCtx, 0, EmptyStr)
         ELSE LET v == validateSession(tok) IN
              IF v.err \/ SessionFailure(v.session, t) # ""
              THEN Outcome(NoResp, FALSE, EmptyCtx, v.calls, tok)
              ELSE Outcome(NoResp, FALSE, UserContext(v.session), v.calls, tok)

\* AuthRequired
AuthRequiredResult(r, t) ==
    IF authConfig = "nil"
    THEN Outcome([NoResp EXCEPT !.status = 500, !.error = "Authentication service not configured"],
                 TRUE, EmptyCtx, 0, EmptyStr)
    ELSE LET tok == extractSessionToken(r) IN
         IF tok = EmptyStr
         THEN Outcome(Unauthorized("Authentication required"), TRUE, EmptyCtx, 0, EmptyStr)
         ELSE LET v == validateSession(tok) IN
              IF v.err
              THEN Outcome(Unauthorized("Invalid or expired session"), TRUE, EmptyCtx, v.calls, tok)
              ELSE IF SessionFailure(v.session, t) # ""
              THEN Outcome(Unauthorized(SessionFailure(v.session, t)), TRUE, EmptyCtx, v.calls, tok)
              ELSE Outcome(NoResp, FALSE, UserContext(v.session), v.calls, tok)

\* OptionalAuth: never writes a response and never aborts.
OptionalAuthResult(r, t) ==
    IF authConfig = "nil"
    THEN Outcome(NoResp, FALSE, EmptyCtx, 0, EmptyStr)
    ELSE LET tok == extractSessionToken(r) IN
         IF tok = EmptyStr
         THEN Outcome(NoResp, FALSE, EmptyCtx, 0, EmptyStr)
         ELSE LET v == validateSession(tok) IN
              IF v.err \/ ~v.session.active
              THEN Outcome(NoResp, FALSE, EmptyCtx, v.calls, tok)
              ELSE Outcome(NoResp, FALSE, UserContext(v.session), v.calls, tok)

\* c.JSON(403, {error})
Forbidden(msg) == [NoResp EXCEPT !.status = 403, !.error = msg]

\* A role gate with admin standing above the other roles.
RoleRequiredHierarchy(c, requiredRole) ==
    IF "user_traits" \notin c.keys
    THEN Outcome(Forbidden("Access denied - no user context"), TRUE, c, 0, EmptyStr)
    ELSE LET role == IF c.user_traits.type = "string" THEN c.user_traits.val ELSE "trader" IN
         IF role # requiredRole /\ role # "admin"
         THEN Outcome([Forbidden("Insufficient permissions") EXCEPT
                          !.required_role = requiredRole, !.user_role = role], TRUE, c, 0, EmptyStr)
         ELSE Outcome(NoResp, FALSE, c, 0, EmptyStr)

\* RoleRequired(requiredRole)
RoleRequiredResult(c, requiredRole) ==
    IF "user_traits" \notin c.keys
    THEN Outcome(Forbidden("Access denied - no user context"), TRUE, c, 0, EmptyStr)
    ELSE LET role == IF c.user_traits.type = "string" THEN c.user_traits.val ELSE "trader" IN
         IF role # requiredRole
         THEN Outcome([Forbidden("Insufficient permissions") EXCEPT
                          !.required_role = requiredRole, !.user_role = role], TRUE, c, 0, EmptyStr)
         ELSE Outcome(NoResp, FALSE, c, 0, EmptyStr)

\* ------------------------------------------------------- market_data store
Symbols == {"BBCA.JK", "TLKM.JK"}

\* Natural keys (symbol, date, source) that occur in the model.
NaturalKeys ==
    { [symbol |-> "BBCA.JK", date |-> 1, source |-> "mirae"],
      [symbol |-> "BBCA.JK", date |-> 1, source |-> "yahoo"] }

\* Numeric fields of a record, in the units the columns hold.
Quotes ==
    { [open |-> 8500, high |-> 8600, low |-> 8450, close |-> 8550, volume |-> 12500000],
      [open |-> 8510, high |-> 8610, low |-> 8410, close |-> 8560, volume |-> 12600000] }

\* models.MarketData as handed to the service (ID and CreatedAt not yet set).
Candidates ==
    { [symbol |-> k.symbol, date |-> k.date, source |-> k.source,
       open |-> q.open, high |-> q.high, low |-> q.low, close |-> q.close, volume |-> q.volume]
      : k \in NaturalKeys, q \in Quotes }

Batches == UNION { [1..n -> Candidates] : n \in 0..MaxBatch }

Key(r) == [symbol |-> r.symbol, date |-> r.date, source |-> r.source]
Quote(r) == [open |-> r.open, high |-> r.high, low |-> r.low, close |-> r.close, volume |-> r.volume]

\* A stored row: the candidate plus the store-assigned id and created_at.
NewRow(d, id, t) ==
    [id |-> id, symbol |-> d.symbol, date |-> d.date, source |-> d.source,
     open |-> d.open, high |-> d.high, low |-> d.low, close |-> d.close, volume |-> d.volume,
     created_at |-> t]

\* Rows present when the gateway specification starts.
SeedRows ==
    { NewRow(d, IF d.source = "mirae" THEN 1 ELSE 2, 1) : d \in {c \in Candidates : c.open = 8500} }

\* INSERT ... ON CONFLICT (symbol, date, source) DO NOTHING
UpsertRowDoNothing(rows, d, id, t) ==
    IF \E r \in rows : Key(r) = Key(d) THEN rows ELSE rows \cup {NewRow(d, id, t)}

\* DELETE of the colliding row followed by a plain INSERT of the new one.
OverwriteWholeRow(r, d, id, t) == NewRow(d, id, t)

\* DO UPDATE SET open, high, low, close, volume = EXCLUDED.*: the colliding
\* row r takes the numeric fields of d; the id and created_at the statement
\* would have given a new row are not used.
Overwrite(r, d, id, t) ==
    [r EXCEPT !.open = d.open, !.high = d.high, !.low = d.low,
              !.close = d.close, !.volume = d.volume]

\* INSERT ... ON CONFLICT (symbol, date, source) DO UPDATE SET open, high,
\* low, close, volume = EXCLUDED.*
UpsertRow(rows, d, id, t) ==
    IF \E r \in rows : Key(r) = Key(d)
    THEN { IF Key(r) = Key(d) THEN Overwrite(r, d, id, t) ELSE r : r \in rows }
    ELSE rows \cup {NewRow(d, id, t)}

\* The queued statements executed from the last to the first.
RECURSIVE ExecBatchBackwards(_, _, _, _, _)
ExecBatchBackwards(rows, dataList, i, id, t) ==
    IF i > Len(dataList) THEN rows
    ELSE UpsertRow(ExecBatchBackwards(rows, dataList, i + 1, id, t), dataList[i], id + i - 1, t)

\* The queued statements of one batch, executed in order inside the
\* transaction; statement i draws id + i - 1 from the sequence.
RECURSIVE ExecBatch(_, _, _, _, _)
ExecBatch(rows, dataList, i, id, t) ==
    IF i > Len(dataList) THEN rows
    ELSE ExecBatch(UpsertRow(rows, dataList[i], id + i - 1, t), dataList, i + 1, id, t)

\* Where a storage failure strikes a transaction: nowhere, at Begin, at the
\* Exec of statement k, or at Commit.
NoFault == [at |-> "none", k |-> 0]
Faults(n) ==
    {NoFault, [at |-> "begin", k |-> 0], [at |-> "commit", k |-> 0]}
    \cup {[at |-> "exec", k |-> k] : k \in 1..n}

\* A connection in autocommit: what the statements wrote stays written.
TransactionNoRollback(rows, work, fnErr, fault) ==
    IF fault.at = "begin" THEN [rows |-> rows, err |-> TRUE]
    ELSE IF fnErr THEN [rows |-> work, err |-> TRUE]
    ELSE IF fault.at = "commit" THEN [rows |-> rows, err |-> TRUE]
    ELSE [rows |-> work, err |-> FALSE]

\* db.Transaction: Begin, run fn, Rollback when fn returned an error, else
\* Commit. rows is the committed table, work what fn's statements wrote
\* inside the transaction, fnErr whether fn returned an error.
Transaction(rows, work, fnErr, fault) ==
    IF fault.at = "begin" THEN [rows |-> rows, err |-> TRUE]
    ELSE IF fnErr THEN [rows |-> rows, err |-> TRUE]
    ELSE IF fault.at = "commit" THEN [rows |-> rows, err |-> TRUE]
    ELSE [rows |-> work, err |-> FALSE]

\* MarketService.BulkCreateWithConflict: the rows it leaves, whether it
\* returns an error, and how many sequence values its statements drew. The
\* statements before a failing one have run inside the transaction.
BulkCreateWithConflict(rows, dataList, fault, id, t) ==
    IF Len(dataList) = 0 THEN [rows |-> rows, err |-> FALSE, drawn |-> 0]
    ELSE LET executed == IF fault.at = "exec" THEN fault.k - 1 ELSE Len(dataList)
             work == ExecBatch(rows, SubSeq(dataList, 1, executed), 1, id, t)
             tx == Transaction(rows, work, fault.at = "exec", fault)
         IN  [rows |-> tx.rows, err |-> tx.err,
              drawn |-> IF fault.at = "begin" THEN 0
                        ELSE IF fault.at = "exec" THEN fault.k
                        ELSE Len(dataList)]

\* Where a storage failure strikes one statement over n rows: nowhere, or
\* while row k is written.
StatementFaults(n) == {NoFault} \cup {[at |-> "exec", k |-> k] : k \in 1..n}

\* A table without the unique constraint.
UniqueViolationNever(rows, d) == FALSE

\* UNIQUE(symbol, date, source) of market_data: a row with the natural key
\* of d is among rows.
UniqueViolation(rows, d) == \E r \in rows : Key(r) = Key(d)

\* MarketService.Create: one INSERT ... RETURNING id, created_at. The unique
\* constraint of market_data refuses a row whose natural key is stored.
Create(rows, d, fault, id, t) ==
    IF fault # NoFault \/ UniqueViolation(rows, d)
    THEN [rows |-> rows, err |-> TRUE, drawn |-> 1, row |-> {}]
    ELSE [rows |-> rows \cup {NewRow(d, id, t)}, err |-> FALSE, drawn |-> 1,
          row |-> {NewRow(d, id, t)}]

\* The first row of dataList whose natural key is stored or carried by an
\* earlier row of dataList; Len(dataList) + 1 when there is none.
FirstCollision(rows, dataList) ==
    LET hit == {i \in 1..Len(dataList) :
                  \/ \E r \in rows : Key(r) = Key(dataList[i])
                  \/ \E j \in 1..(i - 1) : Key(dataList[j]) = Key(dataList[i])}
    IN  IF hit = {} THEN Len(dataList) + 1
        ELSE CHOOSE i \in hit : \A j \in hit : i <= j

\* One INSERT per row outside a transaction: the rows written before the
\* failing one stay.
BulkCreateRowByRow(rows, dataList, fault, id, t) ==
    IF Len(dataList) = 0 THEN [rows |-> rows, err |-> FALSE, drawn |-> 0]
    ELSE LET c == FirstCollision(rows, dataList)
             stop == IF fault # NoFault /\ fault.k < c THEN fault.k ELSE c
         IN  [rows |-> rows \cup {NewRow(dataList[i], id + i - 1, t) : i \in 1..(stop - 1)},
              err |-> stop <= Len(dataList),
              drawn |-> IF stop <= Len(dataList) THEN stop ELSE Len(dataList)]

\* MarketService.BulkCreate: one COPY of all rows. COPY is a single
\* statement: a unique violation or a failure at any row leaves none of
\* its rows behind.
BulkCreate(rows, dataList, fault, id, t) ==
    IF Len(dataList) = 0 THEN [rows |-> rows, err |-> FALSE, drawn |-> 0]
    ELSE LET c == FirstCollision(rows, dataList)
             stop == IF fault # NoFault /\ fault.k < c THEN fault.k ELSE c
         IN  IF stop <= Len(dataList)
             THEN [rows |-> rows, err |-> TRUE, drawn |-> stop]
             ELSE [rows |-> rows \cup {NewRow(dataList[i], id + i - 1, t) : i \in 1..Len(dataList)},
                   err |-> FALSE, drawn |-> Len(dataList)]

\* DELETE FROM market_data WHERE symbol = $1
Delete(rows, symbol) == {r \in rows : r.symbol # symbol}

KeysOf(dataList) == {Key(dataList[i]) : i \in 1..Len(dataList)}
DistinctKeys(dataList) == Cardinality(KeysOf(dataList)) = Len(dataList)

\* The rows of a call whose statements the store got to execute: none when
\* Begin failed, the rows up to the failing one when statement k failed.
Queued(dataList, fault) ==
    IF fault.at = "begin" THEN <<>>
    ELSE IF fault.at = "exec" THEN SubSeq(dataList, 1, fault.k)
    ELSE dataList

NoCall == [op |-> "", batch |-> <<>>, fault |-> NoFault, err |-> FALSE, repeat |-> FALSE, updated |-> 0]

\* Connections of the pool that run service calls side by side.
Workers == {1, 2}

\* A connection with no call in progress, and the outcome of its last call.
NoTx ==
    [op |-> "", batch |-> <<>>, i |-> 0, writes |-> {}, state |-> "idle", done |-> "",
     keys |-> {}, overlapped |-> FALSE, ret |-> {}, fn |-> "", trace |-> <<>>, err |-> "",
     cancelled |-> FALSE]
NoTxs == [w \in Workers |-> NoTx]

\* ------------------------------------------------- user_preferences store
\* The lists GetOrCreatePreferences writes for a new user.
DefaultSelectedSymbols == <<"BBCA.JK", "BBRI.JK", "TLKM.JK">>
DefaultWatchlist == <<"BBCA.JK", "BBRI.JK", "TLKM.JK", "ASII.JK">>

\* Symbols named in watchlist requests: one of the defaults, one that is not.
WatchSymbols == {"BBCA.JK", "GOTO.JK"}

\* GetUserEmail: the email trait of the session's identity.
GetUserEmail(c) == IF "user_traits" \in c.keys THEN "user@example.com" ELSE ""

\* defaultPrefs of GetOrCreatePreferences.
DefaultPrefs(userID, email) ==
    [user_id |-> userID, email |-> email, default_source |-> "yahoo",
     selected_symbols |-> DefaultSelectedSymbols, watchlist |-> DefaultWatchlist]

\* The rows of a user; user_id is the primary key.
RowsOf(rows, userID) == {r \in rows : r.user_id = userID}

\* UserService.GetPreferences: the row, pgx.ErrNoRows when there is none, or
\* another error when the query fails. A nil result is the empty set.
GetPreferences(rows, userID, ok) ==
    IF ~ok THEN [err |-> "error", prefs |-> {}]
    ELSE IF RowsOf(rows, userID) = {} THEN [err |-> "ErrNoRows", prefs |-> {}]
    ELSE [err |-> "", prefs |-> RowsOf(rows, userID)]

\* UserService.CreatePreferences: INSERT ... ON CONFLICT (user_id) DO UPDATE
\* SET email = EXCLUDED.email.
CreatePreferences(rows, p, ok) ==
    IF ~ok THEN [rows |-> rows, err |-> TRUE]
    ELSE IF RowsOf(rows, p.user_id) # {}
    THEN [rows |-> {IF r.user_id = p.user_id THEN [r EXCEPT !.email = p.email] ELSE r : r \in rows},
          err |-> FALSE]
    ELSE [rows |-> rows \cup {p}, err |-> FALSE]

\* UserService.GetOrCreatePreferences: what GetPreferences returned when it
\* returned a row; otherwise the defaults are written and returned.
GetOrCreatePreferences(rows, userID, email, readOk, writeOk) ==
    LET got == GetPreferences(rows, userID, readOk)
        made == CreatePreferences(rows, DefaultPrefs(userID, email), writeOk)
    IN  IF got.err = "" /\ got.prefs # {}
        THEN [rows |-> rows, err |-> FALSE, prefs |-> got.prefs]
        ELSE IF got.err = "ErrNoRows" \/ got.prefs = {}
        THEN IF made.err
             THEN [rows |-> made.rows, err |-> TRUE, prefs |-> {}]
             ELSE [rows |-> made.rows, err |-> FALSE, prefs |-> {DefaultPrefs(userID, email)}]
        ELSE [rows |-> rows, err |-> TRUE, prefs |-> {}]

\* The JSON object of a preferences update: the keys it carries and the
\* values of the keys a column exists for.
NoUpdates == [fields |-> {}, default_source |-> "", selected_symbols |-> <<>>, watchlist |-> <<>>]

\* UserService.UpdatePreferences: UPDATE user_preferences SET key = value,
\* ... WHERE user_id = $n. With no key the statement does not parse.
UpdatePreferences(rows, userID, updates, ok) ==
    IF ~ok \/ updates.fields = {} THEN [rows |-> rows, err |-> TRUE]
    ELSE [rows |-> {IF r.user_id = userID
                    THEN [r EXCEPT
                            !.default_source = IF "default_source" \in updates.fields
                                               THEN updates.default_source ELSE @,
                            !.selected_symbols = IF "selected_symbols" \in updates.fields
                                                 THEN updates.selected_symbols ELSE @,
                            !.watchlist = IF "watchlist" \in updates.fields
                                          THEN updates.watchlist ELSE @]
                    ELSE r : r \in rows},
          err |-> FALSE]

\* $2 = ANY(watchlist)
InList(symbol, list) == \E i \in 1..Len(list) : list[i] = symbol

\* UserService.AddToWatchlist: array_append where the symbol is not there.
AddToWatchlist(rows, userID, symbol, ok) ==
    IF ~ok THEN [rows |-> rows, err |-> TRUE]
    ELSE [rows |-> {IF r.user_id = userID /\ ~InList(symbol, r.watchlist)
                    THEN [r EXCEPT !.watchlist = Append(r.watchlist, symbol)]
                    ELSE r : r \in rows},
          err |-> FALSE]

\* UserService.RemoveFromWatchlist: array_remove drops every occurrence.
RemoveFromWatchlist(rows, userID, symbol, ok) ==
    IF ~ok THEN [rows |-> rows, err |-> TRUE]
    ELSE [rows |-> {IF r.user_id = userID
                    THEN [r EXCEPT !.watchlist = SelectSeq(r.watchlist, LAMBDA x : x # symbol)]
                    ELSE r : r \in rows},
          err |-> FALSE]

\* ----------------------------------------------------------- request bodies
\* Dates as the texts that carry them, each written in one layout; day 1 is
\* 2025-01-07, the day the clock shows when now = 1.
RFC3339 == "2006-01-02T15:04:05Z07:00"
DateOnly == "2006-01-02"
DateTexts ==
    { [text |-> "2025-01-07", layout |-> DateOnly, day |-> 1],
      [text |-> "2025-01-08", layout |-> DateOnly, day |-> 2],
      [text |-> "2025-01-07T00:00:00Z", layout |-> RFC3339, day |-> 1],
      [text |-> "07/01/2025", layout |-> "02/01/2006", day |-> 1] }

\* A parser that accepts a date in whichever layout it is written.
TimeParseAnyLayout(layout, text) ==
    IF \E d \in DateTexts : d.text = text
    THEN [err |-> FALSE, day |-> (CHOOSE d \in DateTexts : d.text = text).day]
    ELSE [err |-> TRUE, day |-> ZeroTime]

\* time.Parse(layout, text); time.Time's UnmarshalJSON is time.Parse with
\* the RFC 3339 layout.
TimeParse(layout, text) ==
    IF \E d \in DateTexts : d.text = text /\ d.layout = layout
    THEN [err |-> FALSE,
          day |-> (CHOOSE d \in DateTexts : d.text = text /\ d.layout = layout).day]
    ELSE [err |-> TRUE, day |-> ZeroTime]

\* The first record is the example of the specification, the second the row
\* FetchYahooData generates for yesterday.
ExampleQuote == CHOOSE q \in Quotes : q.open = 8500
OtherQuote == CHOOSE q \in Quotes : q.open # 8500
NegativeQuote == [ExampleQuote EXCEPT !.open = 0 - ExampleQuote.open]

\* Numbers that occur in request bodies, and their decimal texts.
Numbers ==
    UNION { {q.open, q.high, q.low, q.close, q.volume} : q \in Quotes \cup {NegativeQuote} }

\* strconv.ParseFloat(text, 64): the value, or 0 and an error.
ParseFloat(text) ==
    IF \E v \in Numbers : ToString(v) = text
    THEN [err |-> FALSE, val |-> CHOOSE v \in Numbers : ToString(v) = text]
    ELSE [err |-> TRUE, val |-> 0]

\* strconv.ParseInt(text, 10, 64): the value, or 0 and an error.
ParseInt(text) ==
    IF \E v \in Numbers : ToString(v) = text
    THEN [err |-> FALSE, val |-> CHOOSE v \in Numbers : ToString(v) = text]
    ELSE [err |-> TRUE, val |-> 0]

\* Day counts a client asks for.
DayCounts == 0..MaxBatch

\* strconv.Atoi(text) for the days query parameter.
Atoi(text) ==
    IF \E n \in DayCounts : ToString(n) = text
    THEN [err |-> FALSE, val |-> CHOOSE n \in DayCounts : ToString(n) = text]
    ELSE [err |-> TRUE, val |-> 0]

\* A JSON object for models.MarketData: the date is a JSON string.
JsonRecord(symbol, date, q, source) ==
    [symbol |-> symbol, date |-> date, open |-> q.open, high |-> q.high, low |-> q.low,
     close |-> q.close, volume |-> q.volume, source |-> source]

BaseRecord == JsonRecord("BBCA.JK", "2025-01-07T00:00:00Z", ExampleQuote, "yahoo")

\* The documented request and its variants, one field changed in each.
JsonRecords ==
    { BaseRecord,
      [BaseRecord EXCEPT !.source = "mirae"],
      JsonRecord("BBCA.JK", "2025-01-07T00:00:00Z", OtherQuote, "yahoo"),
      [BaseRecord EXCEPT !.date = "2025-01-07"],
      JsonRecord("BBCA.JK", "2025-01-07T00:00:00Z", NegativeQuote, "yahoo"),
      [BaseRecord EXCEPT !.source = "bloomberg"],
      [BaseRecord EXCEPT !.symbol = ""] }

JsonLists == UNION { [1..n -> JsonRecords] : n \in 0..MaxBatch }

\* encoding/json into models.MarketData.
Unmarshal(j) ==
    LET p == TimeParse(RFC3339, j.date) IN
    [err |-> p.err,
     data |-> [symbol |-> j.symbol, date |-> p.day, source |-> j.source,
               open |-> j.open, high |-> j.high, low |-> j.low, close |-> j.close,
               volume |-> j.volume]]

\* The binding tags of models.MarketData: required on every field, min=0 on
\* the numeric ones, oneof=yahoo mirae manual on the source.
Validate(d) ==
    /\ d.symbol # ""
    /\ d.date # ZeroTime
    /\ \A v \in {d.open, d.high, d.low, d.close, d.volume} : v # 0 /\ v >= 0
    /\ d.source \in {"yahoo", "mirae", "manual"}

\* The binding of a list whose tag lacks dive: the elements are decoded and
\* not validated.
ShouldBindJSONNoDive(list) ==
    [err |-> \E i \in 1..Len(list) : Unmarshal(list[i]).err,
     data |-> [i \in 1..Len(list) |-> Unmarshal(list[i]).data]]

\* c.ShouldBindJSON over the elements of a body: decode, then validate.
ShouldBindJSON(list) ==
    [err |-> \E i \in 1..Len(list) : Unmarshal(list[i]).err \/ ~Validate(Unmarshal(list[i]).data),
     data |-> [i \in 1..Len(list) |-> Unmarshal(list[i]).data]]

\* A CSV record: seven text fields in the order of the header.
CsvHeader == <<"Symbol", "Date", "Open", "High", "Low", "Close", "Volume">>
CsvRecord(symbol, date, q) ==
    <<symbol, date, ToString(q.open), ToString(q.high), ToString(q.low), ToString(q.close),
      ToString(q.volume)>>
DropLast(record) == SubSeq(record, 1, Len(record) - 1)

CsvRecords ==
    { CsvRecord("BBCA.JK", "2025-01-07", ExampleQuote),
      CsvRecord("BBCA.JK", "2025-01-07", OtherQuote),
      CsvRecord("BBCA.JK", "07/01/2025", ExampleQuote),
      DropLast(CsvRecord("BBCA.JK", "2025-01-07", ExampleQuote)),
      CsvRecord("BBCA.JK", "2025-01-08", NegativeQuote),
      [CsvRecord("BBCA.JK", "2025-01-08", ExampleQuote) EXCEPT ![3] = "abc"] }

\* Uploaded files: the header and data records, or a file every record of
\* which is one column short.
CsvFiles ==
    { <<CsvHeader>> \o rows : rows \in UNION { [1..n -> CsvRecords] : n \in 0..MaxBatch } }
    \cup { <<DropLast(CsvHeader)>> \o rows :
               rows \in UNION { [1..n -> {r \in CsvRecords : Len(r) < 7}] : n \in 1..MaxBatch } }

\* csv.NewReader(file).ReadAll(): FieldsPerRecord is 0, so the first record
\* fixes the number of fields and a record of another length is an error.
ReadAll(file) ==
    [err |-> \E i \in 1..Len(file) : Len(file[i]) # Len(file[1]), records |-> file]

NoBody == [json |-> <<>>, file |-> <<>>, hasFile |-> FALSE, days |-> "", updates |-> NoUpdates]

\* ------------------------------------------------------------------ routing
Handler(h, arg) == [h |-> h, arg |-> arg]

Routes ==
    {"GET /auth/status", "GET /auth/me", "GET /api/v1/market-data/:symbol",
     "DELETE /api/v1/market-data/:symbol"}

\* Routes registered with AuthRequired in front of their handler.
ProtectedRoutes == Routes \ {"GET /auth/status"}

\* setupRouter: the handler chain gin runs for a route.
setupRouter(route) ==
    CASE route = "GET /auth/status" ->
            <<Handler("OptionalAuth", ""), Handler("AuthStatus", "")>>
      [] route = "GET /auth/me" ->
            <<Handler("AuthRequired", ""), Handler("GetCurrentUser", "")>>
      [] route = "GET /api/v1/market-data/:symbol" ->
            <<Handler("AuthRequired", ""), Handler("GetMarketDataBySymbol", "")>>
      [] route = "DELETE /api/v1/market-data/:symbol" ->
            <<Handler("AuthRequired", ""), Handler("RoleRequired", "admin"),
              Handler("DeleteMarketData", "")>>
      [] route = "POST /api/v1/market-data" ->
            <<Handler("AuthRequired", ""), Handler("CreateMarketData", "")>>
      [] route = "POST /api/v1/market-data/bulk" ->
            <<Handler("AuthRequired", ""), Handler("BulkCreateMarketData", "")>>
      [] route = "POST /api/v1/market-data/yahoo/:symbol" ->
            <<Handler("AuthRequired", ""), Handler("FetchYahooData", "")>>
      [] route = "POST /api/v1/upload/csv" ->
            <<Handler("AuthRequired", ""), Handler("UploadCSV", "")>>
      [] route = "GET /api/v1/preferences" ->
            <<Handler("AuthRequired", ""), Handler("GetUserPreferences", "")>>
      [] route = "PUT /api/v1/preferences" ->
            <<Handler("AuthRequired", ""), Handler("UpdateUserPreferences", "")>>
      [] route = "POST /api/v1/preferences/watchlist/:symbol" ->
            <<Handler("AuthRequired", ""), Handler("AddToWatchlist", "")>>
      [] route = "DELETE /api/v1/preferences/watchlist/:symbol" ->
            <<Handler("AuthRequired", ""), Handler("RemoveFromWatchlist", "")>>

NoReq ==
    [route |-> "", cookie |-> NoCookie, auth |-> EmptyStr, xtoken |-> EmptyStr, symbol |-> "",
     body |-> NoBody]
NoPrev == [sent |-> EmptyStr, admitted |-> FALSE]

\* The handler gin runs next is h.
Current(h) == pc \in 1..Len(chain) /\ ~aborted /\ chain[pc].h = h

\* The chain is exhausted or was aborted.
Done == pc > 0 /\ (aborted \/ pc > Len(chain))

\* State of a request before any handler ran.
FreshRequest ==
    /\ ctx' = EmptyCtx
    /\ resp' = NoResp
    /\ aborted' = FALSE
    /\ calls' = 0
    /\ sent' = EmptyStr
    /\ ran' = ""

\* Effect of a middleware outcome on the request.
Apply(o) ==
    /\ resp' = IF o.resp.status # 0 THEN o.resp ELSE resp
    /\ aborted' = o.abort
    /\ ctx' = o.ctx
    /\ calls' = calls + o.calls
    /\ sent' = o.sent
    /\ pc' = pc + 1

\* ------------------------------------------------------------------ actions
\* InitAuthConfig
InitAuthConfig ==
    /\ authConfig = "nil"
    /\ pc = 0
    /\ authConfig' = "set"
    /\ UNCHANGED <<kratos, now, chain, pc, req, ctx, resp, aborted, calls, sent, ran, prev, prefs, store, nextId, call, txs>>

\* A request arrives and is matched to its route.
NewRequest ==
    /\ pc = 0
    /\ \E route \in Routes, cred \in GatewayCredentials, sym \in Symbols :
          /\ req' = [route |-> route, cookie |-> cred.cookie, auth |-> cred.auth,
                     xtoken |-> cred.xtoken,
                     symbol |-> IF route = "DELETE /api/v1/market-data/:symbol" THEN sym ELSE "BBCA.JK",
                     body |-> NoBody]
          /\ chain' = setupRouter(route)
    /\ pc' = 1
    /\ FreshRequest
    /\ UNCHANGED <<authConfig, kratos, now, prev, prefs, store, nextId, call, txs>>

\* middleware AuthRequired
AuthRequired ==
    /\ Current("AuthRequired")
    /\ Apply(AuthRequiredResult(req, now))
    /\ UNCHANGED <<authConfig, kratos, now, chain, req, ran, prev, prefs, store, nextId, call, txs>>

\* middleware OptionalAuth
OptionalAuth ==
    /\ Current("OptionalAuth")
    /\ Apply(OptionalAuthResult(req, now))
    /\ UNCHANGED <<authConfig, kratos, now, chain, req, ran, prev, prefs, store, nextId, call, txs>>

\* middleware RoleRequired(chain[pc].arg)
RoleRequired ==
    /\ Current("RoleRequired")
    /\ LET o == RoleRequiredResult(ctx, chain[pc].arg) IN
          /\ resp' = IF o.resp.status # 0 THEN o.resp ELSE resp
          /\ aborted' = o.abort
          /\ pc' = pc + 1
    /\ UNCHANGED <<authConfig, kratos, now, chain, req, ctx, calls, sent, ran, prev, prefs, store, nextId, call, txs>>

\* handler AuthStatus
AuthStatus ==
    /\ Current("AuthStatus")
    /\ resp' = IF GetUserID(ctx) = ""
               THEN [NoResp EXCEPT !.status = 200, !.authenticated = "false"]
               ELSE [NoResp EXCEPT !.status = 200, !.authenticated = "true", !.role = GetUserRole(ctx)]
    /\ ran' = "AuthStatus"
    /\ pc' = pc + 1
    /\ UNCHANGED <<authConfig, kratos, now, chain, req, ctx, aborted, calls, sent, prev, prefs, store, nextId, call, txs>>

\* handler GetCurrentUser
GetCurrentUser ==
    /\ Current("GetCurrentUser")
    /\ \E readOk \in BOOLEAN, writeOk \in BOOLEAN :
          LET res == GetOrCreatePreferences(prefs, GetUserID(ctx), GetUserEmail(ctx), readOk, writeOk) IN
          /\ prefs' = res.rows
          /\ resp' = IF res.err
                     THEN [NoResp EXCEPT !.status = 500, !.error = "Failed to get user preferences"]
                     ELSE [NoResp EXCEPT !.status = 200, !.authenticated = "true",
                                         !.role = GetUserRole(ctx), !.data = res.prefs]
    /\ ran' = "GetCurrentUser"
    /\ pc' = pc + 1
    /\ UNCHANGED <<authConfig, kratos, now, chain, req, ctx, aborted, calls, sent, prev, store, nextId, call, txs>>

\* handler GetMarketDataBySymbol: a read; 400 on a bad date range, 500 on a
\* storage error.
GetMarketDataBySymbol ==
    /\ Current("GetMarketDataBySymbol")
    /\ \E status \in {200, 400, 500} : resp' = [NoResp EXCEPT !.status = status]
    /\ ran' = "GetMarketDataBySymbol"
    /\ pc' = pc + 1
    /\ UNCHANGED <<authConfig, kratos, now, chain, req, ctx, aborted, calls, sent, prev, prefs, store, nextId, call, txs>>

\* handler DeleteMarketData
DeleteMarketData ==
    /\ Current("DeleteMarketData")
    /\ \E ok \in BOOLEAN :
          IF ok
          THEN /\ store' = Delete(store, req.symbol)
               /\ resp' = [NoResp EXCEPT !.status = 200]
          ELSE /\ store' = store
               /\ resp' = [NoResp EXCEPT !.status = 500, !.error = "Failed to delete data"]
    /\ ran' = "DeleteMarketData"
    /\ pc' = pc + 1
    /\ UNCHANGED <<authConfig, kratos, now, chain, req, ctx, aborted, calls, sent, prev, prefs, nextId, call, txs>>

\* The response is sent and the request's context is released.
Finish ==
    /\ Done
    /\ prev' = [sent |-> sent, admitted |-> ctx.keys # {}]
    /\ pc' = 0
    /\ chain' = <<>>
    /\ req' = NoReq
    /\ FreshRequest
    /\ call' = NoCall
    /\ UNCHANGED <<authConfig, kratos, now, prefs, store, nextId, txs>>

\* The provider's view of the session changes between two requests.
ProviderChange ==
    /\ pc = 0
    /\ \E a \in Replies : a # kratos /\ kratos' = a
    /\ UNCHANGED <<authConfig, now, chain, pc, req, ctx, resp, aborted, calls, sent, ran, prev, prefs, store, nextId, call, txs>>

\* Time passes between two requests.
Tick ==
    /\ pc = 0
    /\ now < MaxNow
    /\ now' = now + 1
    /\ UNCHANGED <<authConfig, kratos, chain, pc, req, ctx, resp, aborted, calls, sent, ran, prev, prefs, store, nextId, call, txs>>

\* ----------------------------------------------------------- specifications
Init ==
    /\ authConfig = "nil"
    /\ kratos \in Replies
    /\ now = 1
    /\ chain = <<>>
    /\ pc = 0
    /\ req = NoReq
    /\ ctx = EmptyCtx
    /\ resp = NoResp
    /\ aborted = FALSE
    /\ calls = 0
    /\ sent = EmptyStr
    /\ ran = ""
    /\ prev = NoPrev
    /\ prefs = {}
    /\ store = SeedRows
    /\ nextId = 3
    /\ call = NoCall
    /\ txs = NoTxs

Next ==
    \/ InitAuthConfig
    \/ NewRequest
    \/ AuthRequired
    \/ OptionalAuth
    \/ RoleRequired
    \/ AuthStatus
    \/ GetCurrentUser
    \/ GetMarketDataBySymbol
    \/ DeleteMarketData
    \/ Finish
    \/ ProviderChange
    \/ Tick

Spec == Init /\ [][Next]_vars

\* --- token extraction on its own: every combination of the three sources
ExtractInputs ==
    [route : {"extract"}, cookie : CookieValues, auth : AuthHeaderValues,
     xtoken : XTokenValues, symbol : {""}]

InitExtract ==
    /\ authConfig = "set"
    /\ kratos = Unreachable
    /\ now = 1
    /\ chain = <<Handler("extractSessionToken", "")>>
    /\ pc = 1
    /\ req \in ExtractInputs
    /\ ctx = EmptyCtx
    /\ resp = NoResp
    /\ aborted = FALSE
    /\ calls = 0
    /\ sent = EmptyStr
    /\ ran = ""
    /\ prev = NoPrev
    /\ prefs = {}
    /\ store = {}
    /\ nextId = 1
    /\ call = NoCall
    /\ txs = NoTxs

\* extractSessionToken applied to the request.
ExtractToken ==
    /\ Current("extractSessionToken")
    /\ sent' = extractSessionToken(req)
    /\ pc' = pc + 1
    /\ UNCHANGED <<authConfig, kratos, now, chain, req, ctx, resp, aborted, calls, ran, prev, prefs, store, nextId, call, txs>>

NextExtract == ExtractToken

SpecExtract == InitExtract /\ [][NextExtract]_vars

\* --- the role gate on its own: RoleRequired(r) for every r, entered with the
\* context AuthRequired leaves for an admitted session
GateRoles == {"trader", "admin", "viewer"}

AdmittedBodies == {b \in SessionBodies : b.active /\ b.expires_at # AbsentField}

InitGate ==
    /\ authConfig = "set"
    /\ now = 1
    /\ \E b \in AdmittedBodies, r \in GateRoles, sym \in Symbols :
          /\ kratos = Response(200, b)
          /\ ctx = UserContext(Decode(b))
          /\ chain = <<Handler("AuthRequired", ""), Handler("RoleRequired", r),
                       Handler("DeleteMarketData", "")>>
          /\ req = [route |-> "DELETE /api/v1/market-data/:symbol", cookie |-> Cookie(T1),
                    auth |-> EmptyStr, xtoken |-> EmptyStr, symbol |-> sym, body |-> NoBody]
    /\ pc = 2
    /\ resp = NoResp
    /\ aborted = FALSE
    /\ calls = 1
    /\ sent = T1
    /\ ran = ""
    /\ prev = NoPrev
    /\ prefs = {}
    /\ store = SeedRows
    /\ nextId = 3
    /\ call = NoCall
    /\ txs = NoTxs

NextGate ==
    \/ RoleRequired
    \/ DeleteMarketData

SpecGate == InitGate /\ [][NextGate]_vars

\* --- the upsert path of the market service on its own
InitStore ==
    /\ authConfig = "set"
    /\ kratos = Unreachable
    /\ now = 1
    /\ chain = <<>>
    /\ pc = 0
    /\ req = NoReq
    /\ ctx = EmptyCtx
    /\ resp = NoResp
    /\ aborted = FALSE
    /\ calls = 0
    /\ sent = EmptyStr
    /\ ran = ""
    /\ prev = NoPrev
    /\ prefs = {}
    /\ store = {}
    /\ nextId = 1
    /\ call = NoCall
    /\ txs = NoTxs

\* Rows of dataList that meet a stored row with other numeric fields.
Overwrites(rows, dataList) ==
    Cardinality({i \in 1..Len(dataList) :
                    \E r \in rows : Key(r) = Key(dataList[i]) /\ Quote(r) # Quote(dataList[i])})

\* One call of MarketService.BulkCreateWithConflict.
UpsertBatch ==
    /\ pc = 0
    /\ \E dataList \in Batches :
          /\ nextId + Len(dataList) - 1 <= MaxId
          /\ \E fault \in Faults(Len(dataList)) :
                LET res == BulkCreateWithConflict(store, dataList, fault, nextId, now) IN
                /\ store' = res.rows
                /\ nextId' = nextId + res.drawn
                /\ call' = [op |-> "BulkCreateWithConflict", batch |-> Queued(dataList, fault),
                            fault |-> IF Len(dataList) = 0 THEN NoFault ELSE fault,
                            err |-> res.err,
                            repeat |-> /\ ~res.err
                                       /\ call.op = "BulkCreateWithConflict"
                                       /\ ~call.err
                                       /\ Len(call.batch) = Len(dataList)
                                       /\ KeysOf(call.batch) = KeysOf(dataList),
                            updated |-> IF res.err THEN 0 ELSE Overwrites(store, dataList)]
    /\ UNCHANGED <<authConfig, kratos, now, chain, pc, req, ctx, resp, aborted, calls, sent, ran, prev, prefs, txs>>

NextStore ==
    \/ UpsertBatch
    \/ Tick

SpecStore == InitStore /\ [][NextStore]_vars

\* --- the ingestion endpoints behind AuthRequired, with a live session
IngestRoutes ==
    {"POST /api/v1/market-data", "POST /api/v1/market-data/bulk",
     "POST /api/v1/market-data/yahoo/:symbol", "POST /api/v1/upload/csv"}

\* Values of the days query parameter; "" is the parameter left out.
DaysQueries == {""} \cup {ToString(n) : n \in DayCounts}

\* Bodies a client sends to a route.
BodiesOf(route) ==
    CASE route = "POST /api/v1/market-data" ->
            {[NoBody EXCEPT !.json = <<j>>] : j \in JsonRecords}
      [] route = "POST /api/v1/market-data/bulk" ->
            {[NoBody EXCEPT !.json = list] : list \in JsonLists}
      [] route = "POST /api/v1/market-data/yahoo/:symbol" ->
            {[NoBody EXCEPT !.days = q] : q \in DaysQueries}
      [] route = "POST /api/v1/upload/csv" ->
            {NoBody} \cup {[NoBody EXCEPT !.hasFile = TRUE, !.file = f] : f \in CsvFiles}

\* c.JSON(status, ErrorResponse{Error: msg})
ErrorResponse(status, msg) == [NoResp EXCEPT !.status = status, !.error = msg]

\* What a handler leaves behind: its response, the table, the sequence
\* values drawn, and the call of the market service it made, if any.
Handled(response, rows, drawn, made) ==
    [resp |-> response, rows |-> rows, drawn |-> drawn, call |-> made]

\* The record of one call of the market service.
Called(op, dataList, fault, res, rows) ==
    [op |-> op, batch |-> Queued(dataList, fault), fault |-> IF Len(dataList) = 0 THEN NoFault ELSE fault,
     err |-> res.err, repeat |-> FALSE,
     updated |-> IF res.err THEN 0 ELSE Overwrites(rows, dataList)]

\* Handler.CreateMarketData
CreateMarketDataResult(r, rows, fault, id, t) ==
    LET bound == ShouldBindJSON(r.body.json)
        res == Create(rows, bound.data[1], fault, id, t)
    IN  IF bound.err THEN Handled(ErrorResponse(400, "Invalid request body"), rows, 0, NoCall)
        ELSE IF res.err
        THEN Handled(ErrorResponse(500, "Failed to create data"), res.rows, res.drawn,
                     Called("Create", bound.data, fault, res, rows))
        ELSE Handled([NoResp EXCEPT !.status = 201, !.data = res.row], res.rows, res.drawn,
                     Called("Create", bound.data, fault, res, rows))

\* Handler.BulkCreateMarketData
BulkCreateMarketDataResult(r, rows, fault, id, t) ==
    LET bound == ShouldBindJSON(r.body.json)
        res == BulkCreateWithConflict(rows, bound.data, fault, id, t)
    IN  IF bound.err THEN Handled(ErrorResponse(400, "Invalid request body"), rows, 0, NoCall)
        ELSE IF res.err
        THEN Handled(ErrorResponse(500, "Failed to bulk create data"), res.rows, res.drawn,
                     Called("BulkCreateWithConflict", bound.data, fault, res, rows))
        ELSE Handled([NoResp EXCEPT !.status = 201, !.count = Len(bound.data)], res.rows,
                     res.drawn, Called("BulkCreateWithConflict", bound.data, fault, res, rows))

\* The rows FetchYahooData generates: one per day, today first.
MockData(symbol, days, t) ==
    [n \in 1..days |->
        [symbol |-> symbol, date |-> t - (n - 1), source |-> "yahoo",
         open |-> 8500 + (n - 1) * 10, high |-> 8600 + (n - 1) * 10,
         low |-> 8400 + (n - 1) * 10, close |-> 8550 + (n - 1) * 10,
         volume |-> 12500000 + (n - 1) * 100000]]

\* Handler.FetchYahooData
FetchYahooDataResult(r, rows, fault, id, t) ==
    LET d == Atoi(r.body.days)
        days == IF r.body.days # "" /\ ~d.err /\ d.val > 0 /\ d.val <= 365 THEN d.val ELSE 7
        mockData == MockData(r.symbol, days, t)
        res == BulkCreate(rows, mockData, fault, id, t)
    IN  IF res.err
        THEN Handled(ErrorResponse(500, "Failed to save data"), res.rows, res.drawn,
                     Called("BulkCreate", mockData, fault, res, rows))
        ELSE Handled([NoResp EXCEPT !.status = 200, !.count = Len(mockData)], res.rows,
                     res.drawn, Called("BulkCreate", mockData, fault, res, rows))

\* The row number counted from the first data row.
RowNumberOfData(i) == i + 1

\* The row number UploadCSV prints for index i of records[1:].
RowNumber(i) == i + 2

\* fmt.Sprintf("Row %d: <msg>", i+2)
RowError(i, msg) == [row |-> RowNumber(i), reason |-> msg]

\* Why UploadCSV skips a record; "" when it keeps it.
SkipReason(record) ==
    IF Len(record) < 7 THEN "insufficient columns"
    ELSE IF TimeParse(DateOnly, record[2]).err THEN "invalid date format"
    ELSE ""

\* The record built with the source the other ingestion path stamps.
FromRecordAsYahoo(record) ==
    [symbol |-> record[1], date |-> TimeParse(DateOnly, record[2]).day, source |-> "yahoo",
     open |-> ParseFloat(record[3]).val, high |-> ParseFloat(record[4]).val,
     low |-> ParseFloat(record[5]).val, close |-> ParseFloat(record[6]).val,
     volume |-> ParseInt(record[7]).val]

\* The models.MarketData UploadCSV builds from a record it keeps; the errors
\* of the numeric parsers are dropped.
FromRecord(record) ==
    [symbol |-> record[1], date |-> TimeParse(DateOnly, record[2]).day, source |-> "mirae",
     open |-> ParseFloat(record[3]).val, high |-> ParseFloat(record[4]).val,
     low |-> ParseFloat(record[5]).val, close |-> ParseFloat(record[6]).val,
     volume |-> ParseInt(record[7]).val]

\* The loop of UploadCSV over records[1:], index i counted from 0.
ProcessRecords(records) ==
    LET index == [n \in 1..(Len(records) - 1) |-> n - 1]
        kept == SelectSeq(index, LAMBDA i : SkipReason(records[i + 2]) = "")
        skipped == SelectSeq(index, LAMBDA i : SkipReason(records[i + 2]) # "")
    IN  [marketData |-> [n \in 1..Len(kept) |-> FromRecord(records[kept[n] + 2])],
         errors |-> [n \in 1..Len(skipped) |->
                       RowError(skipped[n], SkipReason(records[skipped[n] + 2]))]]

\* Handler.UploadCSV
UploadCSVResult(r, rows, fault, id, t) ==
    LET read == ReadAll(r.body.file)
        out == ProcessRecords(read.records)
        res == BulkCreateWithConflict(rows, out.marketData, fault, id, t)
        made == IF Len(out.marketData) > 0
                THEN Called("BulkCreateWithConflict", out.marketData, fault, res, rows)
                ELSE NoCall
    IN  IF ~r.body.hasFile THEN Handled(ErrorResponse(400, "No file uploaded"), rows, 0, NoCall)
        ELSE IF read.err THEN Handled(ErrorResponse(400, "Failed to parse CSV"), rows, 0, NoCall)
        ELSE IF Len(read.records) < 2
        THEN Handled(ErrorResponse(400, "CSV file is empty or has no data rows"), rows, 0, NoCall)
        ELSE IF Len(out.marketData) > 0 /\ res.err
        THEN Handled(ErrorResponse(500, "Failed to import data"), res.rows, res.drawn, made)
        ELSE Handled([NoResp EXCEPT !.status = 200,
                                    !.rows_imported = Len(out.marketData),
                                    !.rows_skipped = Len(read.records) - 1 - Len(out.marketData),
                                    !.errors = out.errors],
                     res.rows, res.drawn, made)

\* Effect of an ingestion handler on the request and the store.
Serve(h, out) ==
    /\ resp' = out.resp
    /\ store' = out.rows
    /\ nextId' = nextId + out.drawn
    /\ call' = out.call
    /\ ran' = h
    /\ pc' = pc + 1
    /\ UNCHANGED <<authConfig, kratos, now, chain, req, ctx, aborted, calls, sent, prev, prefs, txs>>

\* The number of rows FetchYahooData generates for a request.
FetchDays(r) ==
    LET d == Atoi(r.body.days) IN
    IF r.body.days # "" /\ ~d.err /\ d.val > 0 /\ d.val <= 365 THEN d.val ELSE 7

\* handler CreateMarketData
CreateMarketData ==
    /\ Current("CreateMarketData")
    /\ \E fault \in StatementFaults(1) :
          Serve("CreateMarketData", CreateMarketDataResult(req, store, fault, nextId, now))

\* handler BulkCreateMarketData
BulkCreateMarketData ==
    /\ Current("BulkCreateMarketData")
    /\ \E fault \in Faults(Len(req.body.json)) :
          Serve("BulkCreateMarketData", BulkCreateMarketDataResult(req, store, fault, nextId, now))

\* handler FetchYahooData
FetchYahooData ==
    /\ Current("FetchYahooData")
    /\ \E fault \in StatementFaults(FetchDays(req)) :
          Serve("FetchYahooData", FetchYahooDataResult(req, store, fault, nextId, now))

\* handler UploadCSV
UploadCSV ==
    /\ Current("UploadCSV")
    /\ \E fault \in Faults(Len(ProcessRecords(req.body.file).marketData)) :
          Serve("UploadCSV", UploadCSVResult(req, store, fault, nextId, now))

\* A request for one of the routes arrives with the session cookie.
Arrives(routes) ==
    /\ pc = 0
    /\ nextId <= MaxId
    /\ \E route \in routes, sym \in {k.symbol : k \in NaturalKeys} :
          \E body \in BodiesOf(route) :
             /\ req' = [route |-> route, cookie |-> Cookie(T1), auth |-> EmptyStr,
                        xtoken |-> EmptyStr,
                        symbol |-> IF route = "POST /api/v1/market-data/yahoo/:symbol"
                                   THEN sym ELSE "BBCA.JK",
                        body |-> body]
             /\ chain' = setupRouter(route)
    /\ pc' = 1
    /\ FreshRequest
    /\ call' = NoCall
    /\ UNCHANGED <<authConfig, kratos, now, prev, prefs, store, nextId, txs>>

\* A request to create or bulk-create market data arrives.
NewIngestRequest == Arrives({"POST /api/v1/market-data", "POST /api/v1/market-data/bulk"})

\* A request to fetch market data from the external source arrives.
NewFetch == Arrives({"POST /api/v1/market-data/yahoo/:symbol"})

\* A CSV upload arrives.
NewUpload == Arrives({"POST /api/v1/upload/csv"})

\* Batches handed to BulkCreate: one candidate for each natural key.
AppendBatches ==
    UNION { [1..n -> {c \in Candidates : Quote(c) = ExampleQuote}] : n \in 0..MaxBatch }

\* One call of MarketService.BulkCreate by any caller.
AppendBatch ==
    /\ pc = 0
    /\ \E dataList \in AppendBatches :
          /\ nextId + Len(dataList) - 1 <= MaxId
          /\ \E fault \in StatementFaults(Len(dataList)) :
             LET res == BulkCreate(store, dataList, fault, nextId, now) IN
             /\ store' = res.rows
             /\ nextId' = nextId + res.drawn
             /\ call' = Called("BulkCreate", dataList, fault, res, store)
    /\ UNCHANGED <<authConfig, kratos, now, chain, pc, req, ctx, resp, aborted, calls, sent, ran, prev, prefs, txs>>

InitIngest ==
    /\ authConfig = "set"
    /\ kratos = Response(200, LiveBody)
    /\ now = 1
    /\ chain = <<>>
    /\ pc = 0
    /\ req = NoReq
    /\ ctx = EmptyCtx
    /\ resp = NoResp
    /\ aborted = FALSE
    /\ calls = 0
    /\ sent = EmptyStr
    /\ ran = ""
    /\ prev = NoPrev
    /\ prefs = {}
    /\ store = {}
    /\ nextId = 1
    /\ call = NoCall
    /\ txs = NoTxs

NextIngest ==
    \/ NewIngestRequest
    \/ AuthRequired
    \/ CreateMarketData
    \/ BulkCreateMarketData
    \/ Finish
    \/ Tick

SpecIngest == InitIngest /\ [][NextIngest]_vars

\* --- the append path: the fetch endpoint and BulkCreate itself
NextFetch ==
    \/ NewFetch
    \/ AuthRequired
    \/ FetchYahooData
    \/ AppendBatch
    \/ Finish
    \/ Tick

SpecFetch == InitIngest /\ [][NextFetch]_vars

\* --- the CSV upload endpoint
NextUpload ==
    \/ NewUpload
    \/ AuthRequired
    \/ UploadCSV
    \/ Finish
    \/ Tick

SpecUpload == InitIngest /\ [][NextUpload]_vars

\* --- the preferences endpoints behind AuthRequired, with a live session
PrefsRoutes ==
    {"GET /auth/me", "GET /api/v1/market-data/:symbol", "GET /api/v1/preferences",
     "PUT /api/v1/preferences", "POST /api/v1/preferences/watchlist/:symbol",
     "DELETE /api/v1/preferences/watchlist/:symbol"}

\* Bodies of PUT /api/v1/preferences: no key, a watchlist that names a symbol
\* twice, a watchlist of one symbol, another default source, a key that is
\* not a column the handler allows.
PrefsUpdates ==
    { NoUpdates,
      [NoUpdates EXCEPT !.fields = {"watchlist"}, !.watchlist = <<"BBCA.JK", "BBCA.JK">>],
      [NoUpdates EXCEPT !.fields = {"watchlist"}, !.watchlist = <<"GOTO.JK">>],
      [NoUpdates EXCEPT !.fields = {"default_source"}, !.default_source = "mirae"],
      [NoUpdates EXCEPT !.fields = {"email"}] }

\* Effect of a preferences handler on the request and the table.
ServePrefs(h, response, rows) ==
    /\ resp' = response
    /\ prefs' = rows
    /\ ran' = h
    /\ pc' = pc + 1
    /\ UNCHANGED <<authConfig, kratos, now, chain, req, ctx, aborted, calls, sent, prev, store, nextId, call, txs>>

\* handler GetUserPreferences
GetUserPreferences ==
    /\ Current("GetUserPreferences")
    /\ \E ok \in BOOLEAN :
          LET got == GetPreferences(prefs, GetUserID(ctx), ok) IN
          ServePrefs("GetUserPreferences",
                     IF got.err # "" THEN ErrorResponse(500, "Failed to get preferences")
                     ELSE [NoResp EXCEPT !.status = 200, !.data = got.prefs],
                     prefs)

\* handler UpdateUserPreferences
UpdateUserPreferences ==
    /\ Current("UpdateUserPreferences")
    /\ \E ok \in BOOLEAN :
          LET updates == req.body.updates
              res == UpdatePreferences(prefs, GetUserID(ctx), updates, ok)
          IN  IF ~(updates.fields \subseteq {"default_source", "selected_symbols", "watchlist"})
              THEN ServePrefs("UpdateUserPreferences", ErrorResponse(400, "Invalid field"), prefs)
              ELSE IF res.err
              THEN ServePrefs("UpdateUserPreferences",
                              ErrorResponse(500, "Failed to update preferences"), res.rows)
              ELSE ServePrefs("UpdateUserPreferences", [NoResp EXCEPT !.status = 200], res.rows)

\* handler AddToWatchlist
AddToWatchlistHandler ==
    /\ Current("AddToWatchlist")
    /\ \E ok \in BOOLEAN :
          LET res == AddToWatchlist(prefs, GetUserID(ctx), req.symbol, ok) IN
          IF req.symbol = ""
          THEN ServePrefs("AddToWatchlist", ErrorResponse(400, "Symbol is required"), prefs)
          ELSE IF res.err
          THEN ServePrefs("AddToWatchlist", ErrorResponse(500, "Failed to add to watchlist"), res.rows)
          ELSE ServePrefs("AddToWatchlist", [NoResp EXCEPT !.status = 200], res.rows)

\* handler RemoveFromWatchlist
RemoveFromWatchlistHandler ==
    /\ Current("RemoveFromWatchlist")
    /\ \E ok \in BOOLEAN :
          LET res == RemoveFromWatchlist(prefs, GetUserID(ctx), req.symbol, ok) IN
          IF req.symbol = ""
          THEN ServePrefs("RemoveFromWatchlist", ErrorResponse(400, "Symbol is required"), prefs)
          ELSE IF res.err
          THEN ServePrefs("RemoveFromWatchlist",
                          ErrorResponse(500, "Failed to remove from watchlist"), res.rows)
          ELSE ServePrefs("RemoveFromWatchlist", [NoResp EXCEPT !.status = 200], res.rows)

\* A request for one of the preferences routes arrives with the session
\* cookie.
NewPrefsRequest ==
    /\ pc = 0
    /\ \E route \in PrefsRoutes, sym \in WatchSymbols, updates \in PrefsUpdates :
          /\ (route # "PUT /api/v1/preferences") => updates = NoUpdates
          /\ req' = [route |-> route, cookie |-> Cookie(T1), auth |-> EmptyStr,
                     xtoken |-> EmptyStr, symbol |-> sym,
                     body |-> [NoBody EXCEPT !.updates = updates]]
          /\ chain' = setupRouter(route)
    /\ pc' = 1
    /\ FreshRequest
    /\ UNCHANGED <<authConfig, kratos, now, prev, prefs, store, nextId, call, txs>>

NextPrefs ==
    \/ NewPrefsRequest
    \/ AuthRequired
    \/ GetCurrentUser
    \/ GetMarketDataBySymbol
    \/ GetUserPreferences
    \/ UpdateUserPreferences
    \/ AddToWatchlistHandler
    \/ RemoveFromWatchlistHandler
    \/ Finish

SpecPrefs == InitIngest /\ [][NextPrefs]_vars

\* --- service calls of two connections side by side on one table
\* The numeric fields connection w writes.
QuoteOf(w) == IF w = 1 THEN ExampleQuote ELSE OtherQuote

\* Batches connection w hands to the service: its numeric fields for any
\* natural keys, in any order.
BatchesOf(w) ==
    UNION { [1..n -> {c \in Candidates : Quote(c) = QuoteOf(w)}] : n \in 1..MaxBatch }

\* The calls connection w makes; Create takes one record.
ServiceCalls(w) ==
    {[op |-> "Create", batch |-> b] : b \in {b \in BatchesOf(w) : Len(b) = 1}}
    \cup {[op |-> o, batch |-> b] : o \in {"BulkCreate", "BulkCreateWithConflict"},
                                    b \in BatchesOf(w)}

\* The table as connection w sees it: the committed rows with its own
\* uncommitted writes laid over them.
View(w) == {r \in store : \A x \in txs[w].writes : x.id # r.id} \cup txs[w].writes

\* Another connection holds an uncommitted write of natural key k: a
\* statement on k waits for that connection to commit or roll back.
Waits(w, k) == \E v \in Workers \ {w} : \E r \in txs[v].writes : Key(r) = k

\* The connection's call is over; what it wrote and not committed is gone.
\* Of a committed upsert the keys it wrote stay on record.
Ended(tx, outcome) ==
    IF outcome = "committed" /\ tx.op = "BulkCreateWithConflict"
    THEN [tx EXCEPT !.state = "idle", !.writes = {}, !.done = outcome, !.batch = <<>>, !.i = 0]
    ELSE [NoTx EXCEPT !.done = outcome]

\* Connection w starts Create, BulkCreate or BulkCreateWithConflict.
Begin(w) ==
    /\ pc = 0
    /\ txs[w].state = "idle"
    /\ nextId <= MaxId
    /\ \E c \in ServiceCalls(w) :
          txs' = [v \in Workers |->
                    IF v = w
                    THEN [op |-> c.op, batch |-> c.batch, i |-> 0, writes |-> {},
                          state |-> "open", done |-> "", keys |-> KeysOf(c.batch),
                          overlapped |-> \E u \in Workers \ {w} : txs[u].state = "open",
                          ret |-> {}, fn |-> "", trace |-> <<>>, err |-> "", cancelled |-> FALSE]
                    ELSE IF txs[v].state = "open" THEN [txs[v] EXCEPT !.overlapped = TRUE]
                    ELSE txs[v]]
    /\ UNCHANGED <<authConfig, kratos, now, chain, pc, req, ctx, resp, aborted, calls, sent, ran, prev, prefs, store, nextId, call>>

\* The next row of connection w's call is written: the INSERT of Create,
\* the next row of BulkCreate's COPY, or the next queued statement of
\* BulkCreateWithConflict. A unique violation ends the call with an error.
Exec(w) ==
    /\ txs[w].state = "open"
    /\ txs[w].i < Len(txs[w].batch)
    /\ nextId <= MaxId
    /\ LET d == txs[w].batch[txs[w].i + 1]
           written == {x.id : x \in txs[w].writes}
           after == IF txs[w].op = "BulkCreateWithConflict"
                    THEN UpsertRow(View(w), d, nextId, now)
                    ELSE View(w) \cup {NewRow(d, nextId, now)}
       IN  /\ ~Waits(w, Key(d))
           /\ txs' = [txs EXCEPT ![w] =
                        IF txs[w].op # "BulkCreateWithConflict" /\ UniqueViolation(View(w), d)
                        THEN Ended(txs[w], "failed")
                        ELSE [txs[w] EXCEPT !.i = txs[w].i + 1,
                                            !.writes = {r \in after : r.id \in written \/ Key(r) = Key(d)}]]
    /\ nextId' = nextId + 1
    /\ UNCHANGED <<authConfig, kratos, now, chain, pc, req, ctx, resp, aborted, calls, sent, ran, prev, prefs, store, call>>

\* Connection w's call fails (a storage failure, or the store breaks a
\* deadlock): db.Transaction rolls back, a single statement leaves nothing.
Rollback(w) ==
    /\ txs[w].state = "open"
    /\ txs' = [txs EXCEPT ![w] = Ended(txs[w], "failed")]
    /\ UNCHANGED <<authConfig, kratos, now, chain, pc, req, ctx, resp, aborted, calls, sent, ran, prev, prefs, store, nextId, call>>

\* All rows of connection w's call are written: its writes are committed.
Commit(w) ==
    /\ txs[w].state = "open"
    /\ txs[w].i = Len(txs[w].batch)
    /\ store' = View(w)
    /\ txs' = [txs EXCEPT ![w] = Ended(txs[w], "committed")]
    /\ UNCHANGED <<authConfig, kratos, now, chain, pc, req, ctx, resp, aborted, calls, sent, ran, prev, prefs, nextId, call>>

NextConcurrent ==
    \E w \in Workers :
       \/ Begin(w)
       \/ Exec(w)
       \/ Rollback(w)
       \/ Commit(w)

SpecConcurrent == InitStore /\ [][NextConcurrent]_vars

\* --- calls of the user service by two requests of one user side by side
\* Each statement of the user service runs on its own in autocommit.
\* GetOrCreatePreferences up to the return of GetPreferences: a row that was
\* found is returned, otherwise the call goes on to CreatePreferences.
PrefsRead(w) ==
    /\ txs[w].state = "idle"
    /\ LET got == GetPreferences(prefs, "u1", TRUE) IN
       txs' = [txs EXCEPT ![w] =
                 IF got.err = "" /\ got.prefs # {}
                 THEN [NoTx EXCEPT !.op = "GetOrCreatePreferences", !.done = "returned",
                                   !.ret = got.prefs]
                 ELSE [NoTx EXCEPT !.op = "GetOrCreatePreferences", !.state = "create"]]
    /\ UNCHANGED <<authConfig, kratos, now, chain, pc, req, ctx, resp, aborted, calls, sent, ran, prev, prefs, store, nextId, call>>

\* GetOrCreatePreferences from CreatePreferences to its return.
PrefsCreate(w) ==
    /\ txs[w].state = "create"
    /\ LET made == CreatePreferences(prefs, DefaultPrefs("u1", "user@example.com"), TRUE) IN
       /\ prefs' = made.rows
       /\ txs' = [txs EXCEPT ![w] =
                    [NoTx EXCEPT !.op = "GetOrCreatePreferences", !.done = "returned",
                                 !.ret = {DefaultPrefs("u1", "user@example.com")}]]
    /\ UNCHANGED <<authConfig, kratos, now, chain, pc, req, ctx, resp, aborted, calls, sent, ran, prev, store, nextId, call>>

\* One statement of AddToWatchlist, RemoveFromWatchlist or UpdatePreferences
\* for the same user, by a request that is in no other call.
PrefsWrite(w) ==
    /\ txs[w].state = "idle"
    /\ \E sym \in WatchSymbols, updates \in PrefsUpdates :
          prefs' \in { AddToWatchlist(prefs, "u1", sym, TRUE).rows,
                       RemoveFromWatchlist(prefs, "u1", sym, TRUE).rows,
                       UpdatePreferences(prefs, "u1", updates, updates.fields # {"email"}).rows }
    /\ txs' = [txs EXCEPT ![w] = [NoTx EXCEPT !.op = "write", !.done = "returned"]]
    /\ UNCHANGED <<authConfig, kratos, now, chain, pc, req, ctx, resp, aborted, calls, sent, ran, prev, store, nextId, call>>

NextPrefsConcurrent ==
    \E w \in Workers :
       \/ PrefsRead(w)
       \/ PrefsCreate(w)
       \/ PrefsWrite(w)

SpecPrefsConcurrent == InitStore /\ [][NextPrefsConcurrent]_vars

\* --- one request from its provider call to the end of its transaction
\* The steps of a request that upserts a batch: validateSession's call to the
\* provider, then db.Transaction around the statements of the batch. The
\* client may go away at any step, which cancels the request's context.

\* How db.Transaction leaves once fn is over (fn returned nil, returned an
\* error, or panicked): the method it invokes on tx and, with ok telling
\* whether that method succeeded, what the caller gets.
TransactionExitNoRecover(fn, ok) ==
    IF fn = "panic" THEN [invoked |-> <<>>, done |-> "panicked", err |-> ""]
    ELSE IF fn = "err"
    THEN [invoked |-> <<"Rollback">>, done |-> "failed", err |-> IF ok THEN "fn" ELSE "fn+rollback"]
    ELSE [invoked |-> <<"Commit">>, done |-> IF ok THEN "committed" ELSE "failed",
          err |-> IF ok THEN "" ELSE "commit"]

TransactionExit(fn, ok) ==
    IF fn = "panic" THEN [invoked |-> <<"Rollback">>, done |-> "panicked", err |-> ""]
    ELSE IF fn = "err"
    THEN [invoked |-> <<"Rollback">>, done |-> "failed", err |-> IF ok THEN "fn" ELSE "fn+rollback"]
    ELSE [invoked |-> <<"Commit">>, done |-> IF ok THEN "committed" ELSE "failed",
          err |-> IF ok THEN "" ELSE "commit"]

\* Requests in progress on connection w, and those with the transaction
\* begun.
InRequest(w) == txs[w].state \in {"whoami", "admitted", "open", "fndone"}
InTransaction(w) == txs[w].state \in {"open", "fndone"}

\* validateSession sends GET /sessions/whoami: http.NewRequest without a
\* context, on a client with a 10-second timeout.
WhoamiSend(w) ==
    /\ txs[w].state = "idle"
    /\ nextId <= MaxId
    /\ txs' = [txs EXCEPT ![w] = [NoTx EXCEPT !.op = "validateSession", !.state = "whoami"]]
    /\ UNCHANGED <<authConfig, kratos, now, chain, pc, req, ctx, resp, aborted, calls, sent, ran, prev, prefs, store, nextId, call>>

\* client.Do returns, with the provider's answer or at the client's timeout;
\* the request is admitted or answered 401.
WhoamiAnswer(w) ==
    /\ txs[w].state = "whoami"
    /\ \E outcome \in {"admitted", "timeout", "rejected"} :
          txs' = [txs EXCEPT ![w] =
                    IF outcome = "admitted"
                    THEN [txs[w] EXCEPT !.state = "admitted"]
                    ELSE [txs[w] EXCEPT !.state = "idle", !.done = outcome]]
    /\ UNCHANGED <<authConfig, kratos, now, chain, pc, req, ctx, resp, aborted, calls, sent, ran, prev, prefs, store, nextId, call>>

\* The client goes away: c.Request.Context() is cancelled. Nothing in the
\* service listens for it; the calls made with the context fail from now on.
Cancel(w) ==
    /\ InRequest(w)
    /\ ~txs[w].cancelled
    /\ txs' = [txs EXCEPT ![w].cancelled = TRUE]
    /\ UNCHANGED <<authConfig, kratos, now, chain, pc, req, ctx, resp, aborted, calls, sent, ran, prev, prefs, store, nextId, call>>

\* db.Transaction: db.pool.Begin(ctx).
TxBegin(w) ==
    /\ txs[w].state = "admitted"
    /\ \E batch \in BatchesOf(w), ok \in BOOLEAN :
          txs' = [txs EXCEPT ![w] =
                    IF ok /\ ~txs[w].cancelled
                    THEN [txs[w] EXCEPT !.op = "Transaction", !.state = "open", !.batch = batch,
                                        !.trace = <<"Begin">>]
                    ELSE [txs[w] EXCEPT !.op = "Transaction", !.state = "idle",
                                        !.done = "failed", !.err = "begin"]]
    /\ UNCHANGED <<authConfig, kratos, now, chain, pc, req, ctx, resp, aborted, calls, sent, ran, prev, prefs, store, nextId, call>>

\* fn: the next br.Exec() of the batch succeeds, returns an error, or
\* panics; after the last statement fn returns nil.
TxExec(w) ==
    /\ txs[w].state = "open"
    /\ nextId <= MaxId
    /\ \E outcome \in {"ok", "err", "panic"} :
          /\ txs[w].cancelled => outcome # "ok"
          /\ LET d == txs[w].batch[txs[w].i + 1]
                 written == {x.id : x \in txs[w].writes}
                 after == UpsertRow(View(w), d, nextId, now)
             IN  txs' = [txs EXCEPT ![w] =
                           IF outcome = "ok"
                           THEN [txs[w] EXCEPT
                                   !.i = txs[w].i + 1,
                                   !.writes = {r \in after : r.id \in written \/ Key(r) = Key(d)},
                                   !.fn = IF txs[w].i + 1 = Len(txs[w].batch) THEN "nil" ELSE "",
                                   !.state = IF txs[w].i + 1 = Len(txs[w].batch)
                                             THEN "fndone" ELSE "open"]
                           ELSE [txs[w] EXCEPT !.fn = outcome, !.state = "fndone"]]
    /\ nextId' = nextId + 1
    /\ UNCHANGED <<authConfig, kratos, now, chain, pc, req, ctx, resp, aborted, calls, sent, ran, prev, prefs, store, call>>

\* db.Transaction after fn: tx.Rollback(ctx) in the error branch or in the
\* deferred recover, tx.Commit(ctx) otherwise. Either ends the transaction
\* on the connection; only a Commit that succeeds makes the writes visible.
TxExit(w) ==
    /\ txs[w].state = "fndone"
    /\ \E ok \in BOOLEAN :
          /\ txs[w].cancelled => ~ok
          /\ LET exit == TransactionExit(txs[w].fn, ok) IN
             /\ store' = IF exit.done = "committed" THEN View(w) ELSE store
             /\ txs' = [txs EXCEPT ![w] =
                          [txs[w] EXCEPT !.state = "idle", !.batch = <<>>, !.i = 0,
                                         !.writes = IF exit.invoked = <<>> THEN @ ELSE {},
                                         !.trace = @ \o exit.invoked,
                                         !.done = exit.done, !.err = exit.err]]
    /\ UNCHANGED <<authConfig, kratos, now, chain, pc, req, ctx, resp, aborted, calls, sent, ran, prev, prefs, nextId, call>>

NextTx ==
    \E w \in {1} :
       \/ WhoamiSend(w)
       \/ WhoamiAnswer(w)
       \/ Cancel(w)
       \/ TxBegin(w)
       \/ TxExec(w)
       \/ TxExit(w)

SpecTx == InitStore /\ [][NextTx]_vars

\* =================================================================== claims
\* What each credential source offers, in the documented order: the cookie,
\* the Authorization header, the X-Session-Token header.
SourceMatches(r) ==
    << [hit |-> r.cookie.present /\ Len(r.cookie.value) > 0, val |-> r.cookie.value],
       [hit |-> Len(r.auth) >= 2 /\ <<r.auth[1], r.auth[2]>> \in {<<"Bearer", " ">>, <<"Session", " ">>},
        val |-> [i \in 1..(Len(r.auth) - 2) |-> r.auth[i + 2]]],
       [hit |-> Len(r.xtoken) > 0, val |-> r.xtoken] >>

\* The first source that matches decides; nothing is merged.
ReferenceToken(r) ==
    LET m == SourceMatches(r)
        hits == {i \in 1..3 : m[i].hit}
    IN  IF hits = {} THEN <<>> ELSE m[CHOOSE i \in hits : \A j \in hits : i <= j].val

\* Cookie, bearer header and custom header all carry a credential, each a
\* different one.
ThreeCredentials(r) ==
    LET m == SourceMatches(r) IN
    /\ \A i \in 1..3 : m[i].hit /\ Len(m[i].val) > 0
    /\ m[1].val # m[2].val /\ m[1].val # m[3].val /\ m[2].val # m[3].val

Extracted == pc = 2 /\ chain[1].h = "extractSessionToken"

\* C1: extractSessionToken returns the first match in the order cookie,
\* Authorization (Bearer or Session prefix stripped), X-Session-Token, and
\* the empty string when nothing matches; with three different credentials
\* the cookie's value is returned.
C1_ExtractionPriority ==
    Extracted =>
        /\ sent = ReferenceToken(req)
        /\ (ThreeCredentials(req) => sent = req.cookie.value)

C1_Witness == Extracted /\ ThreeCredentials(req) /\ sent = req.cookie.value

\* AuthRequired was the first handler of the chain and has run.
AuthRequiredActed == pc >= 2 /\ chain[1].h = "AuthRequired"

\* This request's call to the provider came back 200 with a decodable body.
GotSession ==
    /\ sent # EmptyStr
    /\ KratosReply(sent).kind = "response"
    /\ KratosReply(sent).code = 200
    /\ KratosReply(sent).body.decodable

\* The request was answered 401 with the given error and stopped.
Rejected(msg) == resp.status = 401 /\ resp.error = msg /\ aborted /\ ran = ""

\* C2: a decoded session with active=false is rejected as inactive whatever
\* its expiry; an active one whose expiry is in the past is rejected as
\* expired; neither reaches the handler.
C2_InactiveThenExpired ==
    (AuthRequiredActed /\ GotSession) =>
        LET b == KratosReply(sent).body IN
        /\ (~b.active => Rejected("Session inactive"))
        /\ (b.active /\ b.expires_at # AbsentField /\ b.expires_at < now => Rejected("Session expired"))

C2_Witness ==
    /\ AuthRequiredActed /\ Done /\ GotSession
    /\ ~KratosReply(sent).body.active
    /\ KratosReply(sent).body.expires_at # AbsentField
    /\ KratosReply(sent).body.expires_at < now
    /\ Rejected("Session inactive")

\* The failure outcomes of authentication: no credential, provider
\* unreachable, a status other than 200, an undecodable body, an inactive
\* session, an expired session.
AuthenticationFails(r, t) ==
    LET tok == ReferenceToken(r)
        a == KratosReply(tok)
    IN  \/ tok = <<>>
        \/ a.kind = "unreachable"
        \/ a.code # 200
        \/ ~a.body.decodable
        \/ ~a.body.active
        \/ (a.body.expires_at # AbsentField /\ a.body.expires_at < t)

\* C3: with the configuration initialised, every failure outcome of
\* AuthRequired is a 401 with a login_url, aborts the chain, leaves the
\* context without user keys, and a body is decoded on status 200 only.
C3_FailureIs401 ==
    (AuthRequiredActed /\ authConfig = "set" /\ AuthenticationFails(req, now)) =>
        /\ resp.status = 401
        /\ resp.login_url
        /\ aborted
        /\ ran = ""
        /\ ctx.keys = {}

C3_Witness ==
    /\ AuthRequiredActed /\ Done /\ authConfig = "set"
    /\ sent \in KnownTokens
    /\ kratos.kind = "response" /\ kratos.code # 200 /\ kratos.body = LiveBody
    /\ resp.status = 401 /\ resp.login_url /\ ctx.keys = {}

\* An authentication middleware was the first handler and has run.
AuthMiddlewareActed == pc >= 2 /\ chain[1].h \in {"AuthRequired", "OptionalAuth"}

\* A credential was presented and its authentication failed.
CredentialFailed == ReferenceToken(req) # <<>> /\ AuthenticationFails(req, now)

\* C4 as stated: on every route with authentication middleware, a presented
\* credential that fails is answered 401 and no handler runs.
C4_NeverAnonymous ==
    (AuthMiddlewareActed /\ authConfig = "set" /\ CredentialFailed) =>
        /\ ran = ""
        /\ (Done => resp.status = 401)

\* C4 amended: on routes guarded by AuthRequired a presented credential
\* that fails is answered 401 and no handler runs; OptionalAuth passes a
\* rejected, unreachable, undecodable or inactive credential on without user
\* context, and AuthStatus then answers 200 with authenticated=false.
C4_NeverAnonymousWhenRequired ==
    /\ (AuthRequiredActed /\ authConfig = "set" /\ CredentialFailed) =>
            /\ ran = ""
            /\ aborted
            /\ resp.status = 401
    /\ (pc >= 2 /\ chain[1].h = "OptionalAuth" /\ authConfig = "set" /\ CredentialFailed
           /\ ~(GotSession /\ KratosReply(sent).body.active)) =>
            /\ ~aborted
            /\ ctx.keys = {}
            /\ (ran = "AuthStatus" => resp.status = 200 /\ resp.authenticated = "false")

C4_Witness ==
    /\ AuthRequiredActed /\ Done /\ authConfig = "set" /\ CredentialFailed
    /\ req.route = "GET /auth/me"
    /\ resp.status = 401 /\ ran = ""

\* C5: authentication middleware that runs while authConfig is nil answers
\* 500 and no handler runs, with or without a credential.
C5_UnconfiguredFailsLoudly ==
    (AuthMiddlewareActed /\ authConfig = "nil") =>
        /\ ran = ""
        /\ (Done => resp.status = 500)

\* The session AuthRequired admitted in this request: decoded from this
\* request's 200 reply, active, not expired, and attached to the context.
AdmittedSession ==
    /\ AuthRequiredActed
    /\ GotSession
    /\ ctx.keys # {}
    /\ ctx.session = Decode(KratosReply(sent).body)
    /\ ctx.session.active
    /\ now <= ctx.session.expiresAt

\* C8: a handler of a protected route starts only in a request in which
\* AuthRequired admitted a valid, active, unexpired session; DeleteMarketData
\* only when the role is exactly admin; rows disappear from market_data only
\* in such a request.
C8_ProtectedHandlersBehindAuth ==
    [][ /\ (ran = "" /\ ran' # "" /\ req.route \in ProtectedRoutes) => AdmittedSession
        /\ (ran = "" /\ ran' = "DeleteMarketData") =>
              (AdmittedSession /\ ctx.user_traits = StringTrait("admin"))
        /\ ~(store \subseteq store') =>
              (ran' = "DeleteMarketData" /\ AdmittedSession /\ ctx.user_traits = StringTrait("admin"))
      ]_vars

C8_Witness ==
    /\ ran = "DeleteMarketData" /\ resp.status = 200
    /\ store # SeedRows
    /\ ctx.user_traits = StringTrait("admin")

\* C9: a request through AuthRequired calls the provider once when a
\* credential was extracted and not at all otherwise, a failed call is not
\* repeated, and the outcome follows the provider's present answer, whatever
\* an earlier request with the same credential was told.
C9_OneCallNoCache ==
    AuthRequiredActed =>
        /\ calls = (IF authConfig = "set" /\ ReferenceToken(req) # <<>> THEN 1 ELSE 0)
        /\ (ctx.keys # {} <=> (authConfig = "set" /\ ~AuthenticationFails(req, now)
                                 /\ now <= Decode(KratosReply(ReferenceToken(req)).body).expiresAt))

C9_Witness ==
    /\ AuthRequiredActed /\ Done
    /\ sent # EmptyStr /\ prev.sent = sent /\ prev.admitted
    /\ calls = 1 /\ ctx.keys = {} /\ resp.status = 401

\* RoleRequired was the second handler of the chain and has run.
GateActed == pc >= 3 /\ chain[2].h = "RoleRequired"

\* The role a session counts as having: its role trait when that is a
\* string, trader otherwise.
EffectiveRole(c) == IF c.user_traits.type = "string" THEN c.user_traits.val ELSE "trader"

\* C6: RoleRequired(r) admits exactly the sessions whose effective role
\* equals r, with no hierarchy between roles; a denial is a 403 naming
\* required_role and user_role, and the gated handler does not run.
C6_ExactRoleMatch ==
    GateActed =>
        LET r == chain[2].arg
            u == EffectiveRole(ctx)
        IN  /\ (~aborted <=> u = r)
            /\ (u # r => /\ resp.status = 403
                         /\ resp.required_role = r
                         /\ resp.user_role = u
                         /\ ran = "")
            /\ (u = "admin" /\ r = "trader" => aborted)
            /\ (u = "trader" /\ r = "admin" => aborted)

C6_Witness ==
    /\ GateActed
    /\ chain[2].arg = "admin"
    /\ ctx.user_traits = StringTrait("viewer")
    /\ aborted /\ ran = ""
    /\ resp.status = 403 /\ resp.required_role = "admin" /\ resp.user_role = "viewer"

RecognizedRoles == {"trader", "admin", "viewer"}

\* C7: a session whose role trait is absent, not a string, or none of
\* trader/admin/viewer counts as trader: GetUserRole says trader, a
\* trader-required gate admits it, an admin-required gate denies it and
\* reports user_role trader.
C7_UnrecognizedRoleIsTrader ==
    (GateActed /\ (ctx.user_traits.type # "string" \/ ctx.user_traits.val \notin RecognizedRoles)) =>
        /\ GetUserRole(ctx) = "trader"
        /\ (chain[2].arg = "trader" => ~aborted)
        /\ (chain[2].arg = "admin" => aborted /\ resp.user_role = "trader")

\* C10: after BulkCreateWithConflict has applied a batch of N rows with
\* pairwise distinct natural keys, exactly N rows carry those keys and each
\* holds the numeric fields of that application, also when an earlier
\* application wrote the same keys; no natural key is ever held by two rows.
C10_UpsertIdempotent ==
    /\ \A r1 \in store, r2 \in store : Key(r1) = Key(r2) => r1 = r2
    /\ (call.op = "BulkCreateWithConflict" /\ ~call.err /\ DistinctKeys(call.batch)) =>
          /\ Cardinality({r \in store : Key(r) \in KeysOf(call.batch)}) = Len(call.batch)
          /\ \A i \in 1..Len(call.batch) :
                \E r \in store : Key(r) = Key(call.batch[i]) /\ Quote(r) = Quote(call.batch[i])

C10_Witness ==
    /\ call.op = "BulkCreateWithConflict" /\ call.repeat
    /\ Len(call.batch) >= 2 /\ DistinctKeys(call.batch)
    /\ call.updated = Len(call.batch)
    /\ Cardinality(store) = Len(call.batch)

\* A step in which BulkCreateWithConflict ran a non-empty batch to its end.
UpsertCommitted ==
    /\ call'.op = "BulkCreateWithConflict"
    /\ ~call'.err
    /\ nextId' # nextId

StoredKeys(rows) == {Key(r) : r \in rows}

\* C11: when BulkCreateWithConflict commits, every row that was stored keeps
\* its id, its natural key and its created_at; a row whose key is not in the
\* batch is untouched; a row whose key is in the batch holds the five numeric
\* fields of a batch row of that key; and each key of the batch that was not
\* stored adds exactly one row.
C11_UpsertFrame ==
    [][UpsertCommitted =>
          /\ \A r \in store :
                \E r2 \in store' :
                   /\ r2.id = r.id /\ Key(r2) = Key(r) /\ r2.created_at = r.created_at
                   /\ (Key(r) \notin KeysOf(call'.batch) => r2 = r)
          /\ \A r2 \in store' :
                Key(r2) \in KeysOf(call'.batch) =>
                   \E i \in 1..Len(call'.batch) :
                      Key(call'.batch[i]) = Key(r2) /\ Quote(call'.batch[i]) = Quote(r2)
          /\ Cardinality(store') =
                Cardinality(store) + Cardinality(KeysOf(call'.batch) \ StoredKeys(store))]_vars

\* A committed batch of two keys, one overwriting a row created earlier and
\* one inserting a new row.
C11_Witness ==
    /\ call.op = "BulkCreateWithConflict" /\ ~call.err
    /\ Len(call.batch) = 2 /\ DistinctKeys(call.batch)
    /\ call.updated = 1
    /\ \E r \in store : r.created_at < now /\ Key(r) \in KeysOf(call.batch)
    /\ \E r \in store : r.created_at = now /\ r.id = nextId - 1

\* C12: a call of BulkCreateWithConflict that returns an error leaves the
\* store exactly as it was, whichever statement failed; a call that returns
\* no error was struck by no failure and leaves a row for every key of its
\* batch.
C12_UpsertAllOrNothing ==
    [][(call'.op = "BulkCreateWithConflict" /\ <<call, nextId, store>>' # <<call, nextId, store>>) =>
          /\ (call'.err => store' = store)
          /\ (call'.err <=> call'.fault # NoFault)
          /\ (~call'.err => KeysOf(call'.batch) \subseteq StoredKeys(store'))]_vars

\* The second statement of a batch failed after the first had written a row
\* the store does not hold.
C12_Witness ==
    /\ call.op = "BulkCreateWithConflict" /\ call.err
    /\ call.fault = [at |-> "exec", k |-> 2]
    /\ \A r \in store : ~(Key(r) = Key(call.batch[1]) /\ Quote(r) = Quote(call.batch[1]))

\* The last row of the batch that carries the natural key of row i.
LastOfKey(dataList, i) ==
    dataList[CHOOSE j \in i..Len(dataList) :
                /\ Key(dataList[j]) = Key(dataList[i])
                /\ \A m \in (j + 1)..Len(dataList) : Key(dataList[m]) # Key(dataList[i])]

\* C20: a batch struck by no storage failure succeeds also when several of
\* its rows carry one natural key, and the one row stored for each key holds
\* the numeric fields of the last batch row of that key.
C20_LastRowWins ==
    (call.op = "BulkCreateWithConflict" /\ call.fault = NoFault) =>
       /\ ~call.err
       /\ \A i \in 1..Len(call.batch) :
             /\ Cardinality({r \in store : Key(r) = Key(call.batch[i])}) = 1
             /\ \A r \in store :
                   Key(r) = Key(call.batch[i]) => Quote(r) = Quote(LastOfKey(call.batch, i))

C20_Witness ==
    /\ call.op = "BulkCreateWithConflict" /\ ~call.err
    /\ Len(call.batch) >= 2
    /\ Key(call.batch[1]) = Key(call.batch[2])
    /\ Quote(call.batch[1]) # Quote(call.batch[2])
    /\ \E r \in store : Key(r) = Key(call.batch[2]) /\ Quote(r) = Quote(call.batch[2])

\* A step in which BulkCreate was called.
BulkCreateCalled ==
    /\ call'.op = "BulkCreate"
    /\ (call' # call \/ nextId' # nextId)

\* A row of dataList carries the natural key of a stored row or of another
\* row of dataList.
Collides(rows, dataList) ==
    ~DistinctKeys(dataList) \/ KeysOf(dataList) \cap StoredKeys(rows) # {}

\* C13: a call of BulkCreate whose batch collides on a natural key with a
\* stored row or within itself returns an error; a call that returns an error
\* leaves the store as it was; and FetchYahooData answers 500 with the one
\* error "Failed to save data" exactly when its call of BulkCreate failed.
C13_AppendAtomic ==
    [][BulkCreateCalled =>
          /\ (Collides(store, call'.batch) => call'.err)
          /\ (call'.err => store' = store)
          /\ (ran' = "FetchYahooData" =>
                 /\ (call'.err <=> resp'.status = 500)
                 /\ (call'.err => resp' = ErrorResponse(500, "Failed to save data")))]_vars

\* A fetch whose second row meets a stored row while its first row is new.
C13_Witness ==
    /\ ran = "FetchYahooData" /\ resp.status = 500
    /\ call.op = "BulkCreate" /\ call.err /\ call.fault = NoFault
    /\ Len(call.batch) >= 2
    /\ Key(call.batch[1]) \notin StoredKeys(store)
    /\ Key(call.batch[2]) \in StoredKeys(store)

\* The data rows of an uploaded file, the header left out.
DataRows(file) == SubSeq(file, 2, Len(file))

\* A data row with a column missing or a date not written as YYYY-MM-DD.
MalformedRow(record) ==
    \/ Len(record) < Len(CsvHeader)
    \/ TimeParse(DateOnly, record[2]).err

\* The data-row numbers of the malformed rows, in file order.
MalformedRows(file) ==
    SelectSeq([k \in 1..Len(DataRows(file)) |-> k], LAMBDA k : MalformedRow(DataRows(file)[k]))

\* UploadCSV has run on a file with the full header and at least one data
\* row, and no storage call of it failed.
UploadHandled ==
    /\ ran = "UploadCSV"
    /\ req.body.hasFile
    /\ Len(req.body.file) >= 2
    /\ req.body.file[1] = CsvHeader
    /\ ~call.err

\* C14: an upload with the full header whose data rows are valid except for
\* rows with a bad date or a missing column is answered 200, with
\* RowsImported the number of valid rows, RowsSkipped the number of
\* malformed rows and one distinct reason for each malformed row.
C14_PartialTolerance ==
    UploadHandled =>
       LET bad == Len(MalformedRows(req.body.file)) IN
       /\ resp.status = 200
       /\ resp.rows_imported = Len(DataRows(req.body.file)) - bad
       /\ resp.rows_skipped = bad
       /\ Len(resp.errors) = bad
       /\ \A m, n \in 1..Len(resp.errors) : m # n => resp.errors[m] # resp.errors[n]

\* C15 as stated: the n-th reason of a 200 response names the data-row number
\* of the n-th malformed row, the first data row being row 1.
C15_RowNumberIsDataRow ==
    (UploadHandled /\ resp.status = 200) =>
       /\ Len(resp.errors) = Len(MalformedRows(req.body.file))
       /\ \A n \in 1..Len(resp.errors) : resp.errors[n].row = MalformedRows(req.body.file)[n]

\* C15: the n-th reason of a 200 response names the line of the n-th
\* malformed row in the file, the header being line 1: a failure in the k-th
\* data row is reported as row k + 1.
C15_RowNumberIsFileLine ==
    (UploadHandled /\ resp.status = 200) =>
       /\ Len(resp.errors) = Len(MalformedRows(req.body.file))
       /\ \A n \in 1..Len(resp.errors) : resp.errors[n].row = MalformedRows(req.body.file)[n] + 1

\* A valid first data row followed by a second with a bad date.
C15_Witness ==
    /\ UploadHandled /\ resp.status = 200
    /\ resp.rows_imported = 1
    /\ MalformedRows(req.body.file) = <<2>>
    /\ resp.errors = <<[row |-> 3, reason |-> "invalid date format"]>>

NonNegative(d) == \A v \in {d.open, d.high, d.low, d.close, d.volume} : v >= 0

\* C16: no record handed to a storage write and no stored row has a negative
\* open, high, low, close or volume.
C16_NoNegativeWritten ==
    /\ \A r \in store : NonNegative(r)
    /\ \A i \in 1..Len(call.batch) : NonNegative(call.batch[i])

\* C17: when the storage call of an upload fails, the response is 500 and
\* carries the number of rows that were validated but not committed and the
\* number of rows skipped at validation.
C17_FailureCountsReported ==
    (ran = "UploadCSV" /\ call.err) =>
       /\ resp.status = 500
       /\ resp.rows_imported # AbsentField
       /\ resp.rows_skipped # AbsentField

\* The record of the specification's end-to-end example: the date is
\* written "2025-01-07".
ExampleRecord == JsonRecord("BBCA.JK", "2025-01-07", ExampleQuote, "yahoo")

ConcurrentUpsertsDone(k) ==
    \A w \in Workers :
       /\ txs[w].state = "idle" /\ txs[w].done = "committed" /\ txs[w].overlapped
       /\ txs[w].op = "BulkCreateWithConflict"
       /\ k \in txs[w].keys

\* C18: whatever Create, BulkCreate and BulkCreateWithConflict calls two
\* connections interleave, no two stored rows share a natural key and no row
\* mixes numeric fields of two requests; after two upserts of one key that
\* ran side by side exactly one row holds the key, with the numeric fields
\* of one of the two requests.
C18_UniqueUnderInterleaving ==
    /\ \A r1 \in store, r2 \in store : Key(r1) = Key(r2) => r1 = r2
    /\ \A r \in store : \E w \in Workers : Quote(r) = QuoteOf(w)
    /\ \A k \in NaturalKeys :
          ConcurrentUpsertsDone(k) => Cardinality({r \in store : Key(r) = k}) = 1

\* Two upserts of one key that ran side by side, the second connection's
\* call committed over the row the first one inserted.
C18_Witness ==
    \E k \in NaturalKeys :
       /\ ConcurrentUpsertsDone(k)
       /\ \E r \in store : Key(r) = k /\ r.id = 1 /\ Quote(r) = QuoteOf(2)
\* A data row that passes the column and date stages and has a numeric
\* field that is not the text of a number.
NonNumericRow(record) ==
    /\ ~MalformedRow(record)
    /\ \/ \E f \in 3..6 : ParseFloat(record[f]).err
       \/ ParseInt(record[7]).err

\* The data-row numbers of the rows that fail one of the three stages.
RejectedRows(file) ==
    SelectSeq([k \in 1..Len(DataRows(file)) |-> k],
              LAMBDA k : MalformedRow(DataRows(file)[k]) \/ NonNumericRow(DataRows(file)[k]))

\* C21: in a 200 response of an upload every data row that fails the column
\* count, the date parsing or the numeric coercion is counted as skipped with
\* a reason, and only the other rows are handed to the store.
C21_NonNumericSkipped ==
    (UploadHandled /\ resp.status = 200) =>
       LET bad == Len(RejectedRows(req.body.file)) IN
       /\ resp.rows_skipped = bad
       /\ Len(resp.errors) = bad
       /\ Len(call.batch) = Len(DataRows(req.body.file)) - bad

\* C22: a session the provider returns with active=true and no expires_at
\* field is admitted by AuthRequired: the request is not stopped and the user
\* context is attached.
C22_NoExpiryAdmitted ==
    (/\ AuthRequiredActed /\ authConfig = "set" /\ GotSession
     /\ KratosReply(sent).body.active
     /\ KratosReply(sent).body.expires_at = AbsentField) =>
        /\ ~aborted
        /\ ctx.keys # {}

\* An element of a submitted list that passes validation: every field is
\* there, the date is an RFC 3339 text, no number is negative and the source
\* is one of yahoo, mirae, manual.
ElementValid(j) ==
    /\ j.symbol # ""
    /\ \E d \in DateTexts : d.text = j.date /\ d.layout = RFC3339
    /\ \A v \in {j.open, j.high, j.low, j.close, j.volume} : v > 0
    /\ j.source \in {"yahoo", "mirae", "manual"}

\* C30: when an element of the list sent to the bulk endpoint fails
\* validation the answer is 400, BulkCreateWithConflict is not called and
\* the store is unchanged; otherwise the whole list is handed to
\* BulkCreateWithConflict in one call, and unless storage fails the answer
\* is 201 with count the number of submitted elements, all of them stored.
C30_NoPartialValidation ==
    [][(ran' = "BulkCreateMarketData" /\ ran # "BulkCreateMarketData") =>
          LET list == req.body.json IN
          IF \E i \in 1..Len(list) : ~ElementValid(list[i])
          THEN /\ resp'.status = 400
               /\ call' = NoCall
               /\ store' = store
               /\ nextId' = nextId
          ELSE /\ call'.op = "BulkCreateWithConflict"
               /\ (call'.fault = NoFault) =>
                     /\ resp'.status = 201
                     /\ resp'.count = Len(list)
                     /\ Len(call'.batch) = Len(list)
                     /\ \A i \in 1..Len(list) :
                           /\ call'.batch[i].symbol = list[i].symbol
                           /\ call'.batch[i].source = list[i].source
                           /\ call'.batch[i].open = list[i].open
                           /\ Key(call'.batch[i]) \in StoredKeys(store')
               /\ (call'.fault # NoFault) => (resp'.status = 500 /\ store' = store)]_vars

\* A list of two valid elements was handed over whole and answered 201.
C30_Witness ==
    /\ ran = "BulkCreateMarketData"
    /\ Len(req.body.json) = 2
    /\ \A i \in 1..2 : ElementValid(req.body.json[i])
    /\ resp.status = 201 /\ resp.count = 2
    /\ Len(call.batch) = 2

\* The data rows of a file that have seven columns and a YYYY-MM-DD date, in
\* file order.
KeptRows(file) == SelectSeq(DataRows(file), LAMBDA r : ~MalformedRow(r))

\* C28: in every 200 response of an upload RowsImported + RowsSkipped is the
\* number of data rows and Errors has RowsSkipped entries; the rows that were
\* kept are the ones handed to BulkCreateWithConflict, in file order and with
\* source mirae; and when every data row was skipped no storage call is made.
C28_UploadCounts ==
    (ran = "UploadCSV" /\ resp.status = 200) =>
       LET kept == KeptRows(req.body.file) IN
       /\ resp.rows_imported + resp.rows_skipped = Len(DataRows(req.body.file))
       /\ Len(resp.errors) = resp.rows_skipped
       /\ resp.rows_imported = Len(kept)
       /\ IF Len(kept) = 0
          THEN call = NoCall
          ELSE /\ call.op = "BulkCreateWithConflict"
               /\ Len(call.batch) = Len(kept)
               /\ \A i \in 1..Len(kept) :
                     /\ call.batch[i].symbol = kept[i][1]
                     /\ call.batch[i].source = "mirae"
                     /\ \E d \in DateTexts : d.text = kept[i][2] /\ d.day = call.batch[i].date
                     /\ ToString(call.batch[i].open) = kept[i][3] \/ call.batch[i].open = 0

\* One row was imported and handed to the store while another was skipped
\* with a reason.
C28_Witness ==
    /\ ran = "UploadCSV" /\ resp.status = 200
    /\ resp.rows_imported = 1 /\ resp.rows_skipped = 1
    /\ Len(resp.errors) = 1
    /\ Len(call.batch) = 1 /\ call.batch[1].source = "mirae"

\* The provider's session for the credential of this request is active and
\* not past its expiry.
SessionLive ==
    /\ GotSession
    /\ KratosReply(sent).body.active
    /\ \/ KratosReply(sent).body.expires_at = AbsentField
       \/ now <= KratosReply(sent).body.expires_at

\* C27: whichever authentication middleware ran, the user context is
\* attached to the request only when the provider's session for the
\* credential is active and not expired, and AuthStatus answers
\* authenticated=true only for such a session.
C27_ContextOnlyForLiveSession ==
    AuthMiddlewareActed =>
       /\ (ctx.keys # {} => SessionLive)
       /\ (ran = "AuthStatus" /\ resp.authenticated = "true" => SessionLive)

\* A handler of a protected route has answered 200 in a request that
\* AuthRequired admitted.
AuthenticatedAccess == ran # "" /\ ctx.keys # {} /\ resp.status = 200

\* C25: once a request of identity u to a protected route was authenticated
\* and served, a user_preferences row of u exists.
C25_PrefsRowAfterAccess ==
    AuthenticatedAccess => RowsOf(prefs, GetUserID(ctx)) # {}

\* The watchlist has no symbol twice.
NoDuplicates(list) == \A i, j \in 1..Len(list) : list[i] = list[j] => i = j

\* C26: no stored row names a symbol twice in its watchlist or in its
\* selected symbols.
C26_WatchlistIsSet ==
    \A r \in prefs : NoDuplicates(r.watchlist) /\ NoDuplicates(r.selected_symbols)

\* Connection w's GetOrCreatePreferences returns in this step.
PrefsReturns(w) ==
    /\ txs'[w] # txs[w]
    /\ txs'[w].op = "GetOrCreatePreferences"
    /\ txs'[w].state = "idle" /\ txs'[w].done = "returned"

\* C29: when calls of GetOrCreatePreferences for one user run side by side
\* with each other and with watchlist and preference updates, a call that
\* returns leaves exactly one row of the user, returns the row stored at that
\* moment, and has not replaced stored lists or a stored source by the
\* defaults.
C29_GetOrCreateConcurrent ==
    [][\A w \in Workers :
          PrefsReturns(w) =>
             /\ Cardinality(RowsOf(prefs', "u1")) = 1
             /\ txs'[w].ret = RowsOf(prefs', "u1")
             /\ (RowsOf(prefs, "u1") # {} => prefs' = prefs)]_vars

\* The call of db.Transaction on connection w has returned or re-raised.
TxEnded(w) == txs[w].op = "Transaction" /\ txs[w].state = "idle" /\ txs[w].done # ""

\* C23: a db.Transaction whose Begin succeeded invokes exactly one of Commit
\* and Rollback before it returns or re-raises a panic: Commit exactly when
\* fn returned nil, Rollback when fn returned an error or panicked; fn's
\* error is reported also when the rollback fails; a call whose Begin failed
\* invokes neither; and after the call no write of it is pending.
C23_ScopedTransaction ==
    \A w \in Workers :
       /\ InTransaction(w) => txs[w].trace = <<"Begin">>
       /\ TxEnded(w) =>
             /\ txs[w].writes = {}
             /\ IF txs[w].err = "begin" THEN txs[w].trace = <<>>
                ELSE /\ Len(txs[w].trace) = 2
                     /\ txs[w].trace[1] = "Begin"
                     /\ txs[w].trace[2] = (IF txs[w].fn = "nil" THEN "Commit" ELSE "Rollback")
                     /\ txs[w].fn \in {"nil", "err", "panic"}
                     /\ (txs[w].fn = "err" => txs[w].err \in {"fn", "fn+rollback"})
                     /\ (txs[w].fn = "panic" => txs[w].done = "panicked")
                     /\ (txs[w].done = "committed" => txs[w].fn = "nil")

\* fn panicked after its first statement had run: the rollback was invoked
\* and the panic re-raised, with nothing of the batch stored.
C23_Witness ==
    /\ TxEnded(1)
    /\ txs[1].fn = "panic" /\ txs[1].done = "panicked"
    /\ txs[1].trace = <<"Begin", "Rollback">>
    /\ store = {}
    /\ nextId > 1

\* C24: once the inbound request is cancelled no call to the identity
\* provider made for it is in flight, and a transaction that was open at the
\* cancellation is not committed.
C24_CancellationPropagates ==
    \A w \in Workers :
       /\ ~(txs[w].cancelled /\ txs[w].state = "whoami")
       /\ (txs[w].cancelled /\ TxEnded(w)) => txs[w].done # "committed"

====
